---- MODULE Spec2Model ----
(***************************************************************************)
(* Model of the Modbus meter drivers (dds661.py, sdm230.py,                *)
(* modbus_meter.py) and of the poll cycle (polling.py, dds661_polling.py). *)
(*                                                                         *)
(* A Python float is a record [k, s, m, e]: k = "fin" is the finite value  *)
(* (-1)^s * m * 2^e with m odd (or m = 0, e = 0), k = "nan" is NaN,        *)
(* k = "inf" is an infinity and k = "none" is Python's None.  A register   *)
(* pair is <<hi, lo>>, two 16-bit words.  The values of the model have     *)
(* m < 2^24 and -30 <= e, which every float32 of the tables below meets.   *)
(***************************************************************************)
EXTENDS Integers, Sequences, FiniteSets, TLC

\* ------------------------------------------------------------------------
\* Python floats
\* ------------------------------------------------------------------------

RECURSIVE Pow2(_)
Pow2(n) == IF n <= 0 THEN 1 ELSE 2 * Pow2(n - 1)

RECURSIVE BitLen(_)
\* number of bits of a natural number (0 for 0)
BitLen(n) == IF n = 0 THEN 0 ELSE 1 + BitLen(n \div 2)

None == [k |-> "none", s |-> 0, m |-> 0, e |-> 0]

NaN == [k |-> "nan", s |-> 0, m |-> 0, e |-> 0]

Inf(s) == [k |-> "inf", s |-> s, m |-> 0, e |-> 0]

RECURSIVE Norm(_, _, _)
\* the canonical record of (-1)^s * m * 2^e
Norm(s, m, e) ==
  IF m = 0 THEN [k |-> "fin", s |-> s, m |-> 0, e |-> 0]
  ELSE IF m % 2 = 0 THEN Norm(s, m \div 2, e + 1)
  ELSE [k |-> "fin", s |-> s, m |-> m, e |-> e]

\* the float of an integer literal
Flt(n) == IF n < 0 THEN Norm(1, -n, 0) ELSE Norm(0, n, 0)

IsNaN(v) == v.k = "nan"

IsFin(v) == v.k = "fin"

\* Python's == on floats (0.0 == -0.0, nan != nan); also dict-key lookup
FEq(a, b) ==
  /\ a.k \in {"fin", "inf"}
  /\ a.k = b.k
  /\ IF a.k = "inf" THEN a.s = b.s
     ELSE IF a.m = 0 THEN b.m = 0
     ELSE a = b

\* the signed integer a.m * 2^(a.e - e0), for e0 <= a.e
Ticks(a, e0) == (IF a.s = 1 THEN -1 ELSE 1) * a.m * Pow2(a.e - e0)

Abs(n) == IF n < 0 THEN -n ELSE n

\* position of the leading bit of a finite non-zero value: 2^Mag <= |a| < 2^(Mag+1)
Mag(a) == a.e + BitLen(a.m) - 1

\* abs(a - b) < 1e-6 on Python floats.  With e0 the smaller exponent the
\* difference is D * 2^e0 for an integer D, and D * 2^e0 < 1e-6 iff
\* D <= floor(2^(-e0) / 10^6) (2^(-e0) / 10^6 is never an integer).
\* A comparison with NaN is False; inf - inf is NaN.
Close(a, b) ==
  IF ~(IsFin(a) /\ IsFin(b)) THEN FALSE
  ELSE IF a.m = 0 /\ b.m = 0 THEN TRUE
  ELSE LET e0 == IF a.m = 0 THEN b.e
                 ELSE IF b.m = 0 THEN a.e
                 ELSE IF a.e < b.e THEN a.e ELSE b.e
       IN IF e0 >= -19 THEN FEq(a, b)
          ELSE IF Mag(a) >= e0 + 30 \/ Mag(b) >= e0 + 30 THEN FALSE
          ELSE Abs(Ticks(a, e0) - Ticks(b, e0)) <= Pow2(-e0) \div 1000000

\* int(v) of a finite float: truncation toward zero
Trunc(v) ==
  LET n == IF v.e >= 0 THEN v.m * Pow2(v.e) ELSE v.m \div Pow2(-v.e)
  IN IF v.s = 1 THEN -n ELSE n

\* ------------------------------------------------------------------------
\* Float32 register codec
\* ------------------------------------------------------------------------

\* the 24-bit significand and the exponent of the nearest float32 of a
\* finite non-zero value (round half to even)
Round24(v) ==
  LET L == BitLen(v.m) IN
  IF L <= 24 THEN [q |-> v.m * Pow2(24 - L), E |-> v.e + L - 1]
  ELSE LET sh   == L - 24
           q0   == v.m \div Pow2(sh)
           r    == v.m % Pow2(sh)
           half == Pow2(sh - 1)
           q1   == IF r > half \/ (r = half /\ q0 % 2 = 1) THEN q0 + 1 ELSE q0
       IN IF q1 = Pow2(24) THEN [q |-> Pow2(23), E |-> v.e + L]
          ELSE [q |-> q1, E |-> v.e + L - 1]

\* an encoder that puts the low word first
float_to_registers_LowFirst(v) ==
  IF v.k = "nan" THEN <<0, 32704>>
  ELSE IF v.k = "inf" THEN <<0, v.s * 32768 + 32640>>
  ELSE IF v.m = 0 THEN <<0, v.s * 32768>>
  ELSE LET r == Round24(v) IN
       IF r.E > 127 THEN <<-1, -1>>
       ELSE IF r.E < -126 THEN <<0, 0>>
       ELSE LET frac == r.q - Pow2(23)
                bexp == r.E + 127
            IN <<frac % 65536, v.s * 32768 + bexp * 128 + frac \div 65536>>

\* struct.pack('>f', value) split in two words, high word first.  The
\* result <<-1, -1>> stands for the OverflowError struct.pack raises when
\* the value is too large for a float32.
float_to_registers(v) ==
  IF v.k = "nan" THEN <<32704, 0>>
  ELSE IF v.k = "inf" THEN <<v.s * 32768 + 32640, 0>>
  ELSE IF v.m = 0 THEN <<v.s * 32768, 0>>
  ELSE LET r == Round24(v) IN
       IF r.E > 127 THEN <<-1, -1>>
       ELSE IF r.E < -126 THEN
         \* subnormal: the significand in units of 2^-149
         LET sh   == -126 - r.E
             q0   == r.q \div Pow2(sh)
             rem  == r.q % Pow2(sh)
             half == Pow2(sh - 1)
             f    == IF sh > 24 THEN 0
                     ELSE IF rem > half \/ (rem = half /\ q0 % 2 = 1)
                          THEN q0 + 1 ELSE q0
         IN <<v.s * 32768 + f \div 65536, f % 65536>>
       ELSE LET frac == r.q - Pow2(23)
                bexp == r.E + 127
            IN <<v.s * 32768 + bexp * 128 + frac \div 65536, frac % 65536>>

\* a decoder that flushes subnormal patterns to zero
registers_to_float_FlushSubnormal(regs) ==
  LET hi   == regs[1] % 65536
      lo   == regs[2] % 65536
      s    == hi \div 32768
      bexp == (hi \div 128) % 256
      frac == (hi % 128) * 65536 + lo
  IN IF bexp = 255 THEN (IF frac = 0 THEN Inf(s) ELSE NaN)
     ELSE IF bexp = 0 THEN Norm(s, 0, 0)
     ELSE Norm(s, Pow2(23) + frac, bexp - 150)

\* struct.unpack('>f', bytes of hi, lo): the float of a register pair
registers_to_float(regs) ==
  LET hi   == regs[1] % 65536
      lo   == regs[2] % 65536
      s    == hi \div 32768
      bexp == (hi \div 128) % 256
      frac == (hi % 128) * 65536 + lo
  IN IF bexp = 255 THEN (IF frac = 0 THEN Inf(s) ELSE NaN)
     ELSE IF bexp = 0 THEN Norm(s, frac, -149)
     ELSE Norm(s, Pow2(23) + frac, bexp - 150)

\* ------------------------------------------------------------------------
\* Register maps
\* ------------------------------------------------------------------------

DDS661_HOLD == [baud |-> 0, parity |-> 2, slave |-> 8]

\* a DDS661 input map whose export energy does not overlap the import energy
DDS661_IN_NoOverlap ==
  [voltage |-> 0, current |-> 8, p_active |-> 18, pf |-> 42, freq |-> 54,
   e_total |-> 256, e_pos |-> 258, e_rev |-> 260]

DDS661_IN ==
  [voltage |-> 0, current |-> 8, p_active |-> 18, pf |-> 42, freq |-> 54,
   e_total |-> 256, e_pos |-> 258, e_rev |-> 259]

SDM230_HOLD == [baud |-> 28, parity |-> 18, slave |-> 20]

SDM230_IN ==
  [voltage |-> 0, current |-> 6, p_active |-> 12, pf |-> 30, freq |-> 70,
   e_total |-> 342, e_pos |-> 72, e_rev |-> 74]

MM_HOLD == [baud |-> 0, parity |-> 2, slave |-> 8]

INPUT_MAP ==
  [voltage |-> 0, current |-> 8, p_active |-> 18, pf |-> 42, freq |-> 54,
   e_total |-> 256, e_pos |-> 258, e_rev |-> 259]

\* the three driver APIs: the classes DDS661 and SDM230, and the functions
\* of modbus_meter.py ("mm") on a MeterConnection
Families == {"dds661", "sdm230", "mm"}

HoldAddr(fam) ==
  IF fam = "sdm230" THEN SDM230_HOLD
  ELSE IF fam = "mm" THEN MM_HOLD ELSE DDS661_HOLD

InAddr(fam) ==
  IF fam = "sdm230" THEN SDM230_IN
  ELSE IF fam = "mm" THEN INPUT_MAP ELSE DDS661_IN

\* order in which read_params reads the holding fields
PARAM_ORDER == <<"baud", "parity", "slave">>

\* a plan that changes the line settings first
PLAN_BaudFirst == <<"baud", "parity", "slave">>

\* the write plan of write_params
PLAN == <<"slave", "parity", "baud">>

\* order in which the measurements are read
MEAS_KEYS ==
  <<"voltage", "current", "p_active", "pf", "freq", "e_total", "e_pos", "e_rev">>

\* a read mapping that falls back to the default rate for an unknown code
BaudFromCode_Default(code) ==
  IF FEq(code, Flt(0)) THEN Flt(2400)
  ELSE IF FEq(code, Flt(1)) THEN Flt(4800)
  ELSE IF FEq(code, Flt(5)) THEN Flt(1200)
  ELSE Flt(9600)

\* SDM230: _BAUD_FROM_CODE.get(code, code)
BaudFromCode(code) ==
  IF FEq(code, Flt(0)) THEN Flt(2400)
  ELSE IF FEq(code, Flt(1)) THEN Flt(4800)
  ELSE IF FEq(code, Flt(2)) THEN Flt(9600)
  ELSE IF FEq(code, Flt(5)) THEN Flt(1200)
  ELSE code

\* a write mapping that knows no rate: every baud is written raw
BaudToCode_Raw(val) == None

\* SDM230: _BAUD_TO_CODE.get(val), None when val is no known rate
BaudToCode(val) ==
  IF FEq(val, Flt(2400)) THEN Flt(0)
  ELSE IF FEq(val, Flt(4800)) THEN Flt(1)
  ELSE IF FEq(val, Flt(9600)) THEN Flt(2)
  ELSE IF FEq(val, Flt(1200)) THEN Flt(5)
  ELSE None

\* the value read_params reports for a decoded holding register
ParamValue(fam, name, v) ==
  IF fam = "sdm230" /\ name = "baud" THEN BaudFromCode(v) ELSE v

\* the value write_params plans to write for a requested value
Desired(fam, name, val) ==
  IF val = None THEN None
  ELSE IF fam = "sdm230" /\ name = "baud"
       THEN (IF BaudToCode(val) # None THEN BaudToCode(val) ELSE val)
  ELSE val

\* ------------------------------------------------------------------------
\* State
\* ------------------------------------------------------------------------

VARIABLES
  family,    \* which driver API the driver object belongs to
  unit,      \* the unit id requests go out with (self.unit, conn.slave, unit_id)
  hold,      \* the device's holding registers: field -> register pair
  scen,      \* which table of input-register contents the device holds
  op,        \* the driver call in progress or just ended ("" when none)
  stack,     \* the functions in progress, outermost first
  pc,        \* position in the function on top of the stack
  i,         \* index of the field the current loop is at
  args,      \* the values requested of write_params
  cur,       \* the Params read_params has read so far
  snap,      \* the Params read_params returned in this call
  report,    \* the report write_params has built so far
  meas,      \* the Measurements read so far
  ret,       \* how the outermost call ended
  exc,       \* the exception in flight ("" when none)
  nopen,     \* transport sessions open now
  opened,    \* transport sessions opened since the outermost call began
  reqs,      \* the register requests issued since the outermost call began
  unit0,     \* the driver's unit id when the outermost call began
  budget,    \* transport faults that may still happen (-1: any number)
  script,    \* the poller: "polling" or "dds661_polling"
  mode,      \* polling.read_mode of the configuration
  devices,   \* the configured device list
  di,        \* index of the device the poll cycle is at (0 outside a cycle)
  dopens,    \* sessions opened for each device of the cycle
  published, \* the records handed to the MQTT client, in order
  plog,      \* the error and warning log of the poll cycle
  oneshot,   \* run_poll's argument oneshot
  stopEvt,   \* _stop_evt is set
  rpc,       \* position in run_poll ("off" outside a run)
  period,    \* the configured cycle period, in clock ticks
  elapsed,   \* the time the last cycle was measured to take
  delay,     \* the timeout handed to _stop_evt.wait
  slept,     \* the time the last wait lasted
  cycles,    \* poll cycles run_poll has started
  mqttlog,   \* the calls run_poll itself made on the MQTT client
  cpc,       \* position in a codec round trip ("off" outside one)
  cx,        \* the float handed to the encoder, or decoded from cregs
  cregs,     \* the register pair handed to the decoder, or encoded from cx
  cy,        \* the float decoded back from the encoding of cx
  cw         \* the register pair encoded back from the decoding of cregs

drvVars ==
  <<family, unit, hold, scen, op, stack, pc, i, args, cur, snap, report, meas,
    ret, exc, nopen, opened, reqs, unit0, budget>>

pollVars == <<script, mode, devices, di, dopens, published, plog>>

runVars ==
  <<oneshot, stopEvt, rpc, period, elapsed, delay, slept, cycles, mqttlog>>

codecVars == <<cpc, cx, cregs, cy, cw>>

vars == <<drvVars, pollVars, runVars, codecVars>>

\* ------------------------------------------------------------------------
\* The device and the transport (pymodbus), seen from the drivers
\* ------------------------------------------------------------------------

\* what a register request can come to: a normal response, a response with
\* isError() true, or an exception raised by the transport
Outcomes == {"ok", "err", "raise"}

\* the outcomes the fault budget still allows
ReqOutcomes == IF budget = 0 THEN {"ok"} ELSE Outcomes

\* the results of connect() the fault budget still allows
ConnOutcomes == IF budget = 0 THEN {TRUE} ELSE BOOLEAN

\* a fault uses up one unit of a bounded budget
Spend(fault) == budget' = IF fault /\ budget > 0 THEN budget - 1 ELSE budget

\* input-register contents of the device, two tables
InputRegs(sc, name) ==
  IF sc = 1
  THEN [voltage |-> <<17254, 32768>>, current |-> <<16288, 0>>,
        p_active |-> <<17296, 0>>, pf |-> <<16128, 0>>, freq |-> <<16968, 0>>,
        e_total |-> <<17530, 8192>>, e_pos |-> <<17530, 8192>>,
        e_rev |-> <<0, 0>>][name]
  ELSE [voltage |-> <<17253, 49152>>, current |-> <<0, 0>>,
        p_active |-> <<49480, 0>>, pf |-> <<49024, 0>>, freq |-> <<16967, 32768>>,
        e_total |-> <<16448, 0>>, e_pos |-> <<16256, 0>>,
        e_rev |-> <<16384, 0>>][name]

Scenarios == {1, 2}

\* holding registers of a device as shipped: 9600 baud (code 2.0 on the
\* SDM230), parity 0.0, slave 1.0
FactoryHold(fam) ==
  [baud   |-> float_to_registers(IF fam = "sdm230" THEN Flt(2) ELSE Flt(9600)),
   parity |-> float_to_registers(Flt(0)),
   slave  |-> float_to_registers(Flt(1))]

\* the values a caller asks write_params for
BaudArgs == {None, Flt(9600), Flt(1200), Flt(2400), Flt(4800)}

ParityArgs == {None, Flt(0), Flt(1), Norm(0, 2097153, -21)}

SlaveArgs == {None, Flt(1), Flt(5)}

\* a request for the first register of the pair only
Req_OneRegister(fc, addr, vals, name, res) ==
  [fc |-> fc, addr |-> addr, cnt |-> 1,
   vals |-> IF vals = <<>> THEN vals ELSE <<vals[1]>>, unit |-> unit,
   name |-> name, res |-> res, sess |-> opened, dev |-> di]

\* one register request as put on the wire
Req(fc, addr, vals, name, res) ==
  [fc |-> fc, addr |-> addr, cnt |-> 2, vals |-> vals, unit |-> unit,
   name |-> name, res |-> res, sess |-> opened, dev |-> di]

NoParams == [baud |-> None, parity |-> None, slave |-> None]

NoEntry == [tag |-> "", val |-> None]

NoReport == [baud |-> NoEntry, parity |-> NoEntry, slave |-> NoEntry]

MeasNames == {MEAS_KEYS[k] : k \in 1..Len(MEAS_KEYS)}

NoMeas == [n \in MeasNames |-> None]

NoRet == [st |-> "none", exn |-> ""]

\* no codec round trip is in progress
NoCodec ==
  /\ cpc = "off"
  /\ cx = None
  /\ cregs = <<>>
  /\ cy = None
  /\ cw = <<>>

\* the driver or the poll cycle is called directly, not by run_poll
NoRun ==
  /\ oneshot = FALSE
  /\ stopEvt = FALSE
  /\ rpc = "off"
  /\ period = 0
  /\ elapsed = 0
  /\ delay = 0
  /\ slept = 0
  /\ cycles = 0
  /\ mqttlog = <<>>

\* ------------------------------------------------------------------------
\* Calls, returns and exceptions
\* ------------------------------------------------------------------------

\* a driver call begins
Begin(o, frames, a, at) ==
  /\ pc = "idle"
  /\ op' = o
  /\ snap' = NoParams
  /\ stack' = frames
  /\ pc' = at
  /\ args' = a
  /\ i' = 0
  /\ cur' = NoParams
  /\ report' = NoReport
  /\ meas' = NoMeas
  /\ ret' = NoRet
  /\ exc' = ""
  /\ opened' = 0
  /\ reqs' = <<>>
  /\ unit0' = unit
  /\ UNCHANGED <<family, unit, hold, nopen, budget>>

\* an exception leaves the function on top of the stack.  Under _poll_once
\* it reaches the except clause of the device loop; no other caller of the
\* drivers handles it, and the outermost call ends with it
Propagate(e) ==
  /\ exc' = e
  /\ IF stack # <<>> /\ stack[1] = "_poll_once"
     THEN stack' = <<"_poll_once">> /\ pc' = "po_except" /\ UNCHANGED ret
     ELSE stack' = <<>> /\ pc' = "done" /\ ret' = [st |-> "raised", exn |-> e]

\* the function on top of the stack returns: to the device loop of
\* _poll_once, or to the caller of the driver
Return ==
  /\ UNCHANGED exc
  /\ IF stack # <<>> /\ stack[1] = "_poll_once"
     THEN stack' = <<"_poll_once">> /\ pc' = "po_publish" /\ UNCHANGED ret
     ELSE stack' = <<>> /\ pc' = "done" /\ ret' = [st |-> "returned", exn |-> ""]

\* connect() succeeded: one more session is open
OpenSession ==
  /\ nopen' = nopen + 1
  /\ opened' = opened + 1
  /\ dopens' = IF di > 0 THEN [dopens EXCEPT ![di] = @ + 1] ELSE dopens

\* the caller has taken the result of the call that ended; the driver object
\* and the device stay as they are
TakeResult ==
  /\ pc = "done"
  /\ pc' = "idle"
  /\ op' = ""
  /\ snap' = NoParams
  /\ stack' = <<>>
  /\ i' = 0
  /\ args' = NoParams
  /\ cur' = NoParams
  /\ report' = NoReport
  /\ meas' = NoMeas
  /\ ret' = NoRet
  /\ exc' = ""
  /\ opened' = 0
  /\ reqs' = <<>>
  /\ unit0' = unit
  /\ scen' = 1
  /\ UNCHANGED <<family, unit, hold, nopen, budget, pollVars, runVars, codecVars>>

\* ------------------------------------------------------------------------
\* read_params
\* ------------------------------------------------------------------------

CallReadParams ==
  /\ Begin("read_params", <<"read_params">>, NoParams, "rp_connect")
  /\ UNCHANGED <<scen, pollVars, runVars, codecVars>>

\* cli = self._make_client(); if not cli.connect(): raise RuntimeError
RPConnect ==
  /\ pc = "rp_connect"
  /\ \E okc \in ConnOutcomes :
       /\ Spend(~okc)
       /\ IF okc
          THEN /\ OpenSession
               /\ pc' = "rp_read"
               /\ i' = 1
               /\ UNCHANGED <<stack, exc, ret>>
          ELSE /\ Propagate("RuntimeError")
               /\ UNCHANGED <<nopen, opened, dopens, i>>
  /\ UNCHANGED <<family, unit, hold, scen, op, args, cur, snap, report, meas,
                 reqs, unit0, script, mode, devices, runVars, di, published, plog, codecVars>>

\* a read_params that, like _rin, takes an error response for NaN and reads on
RPRead_NaNOnError ==
  /\ pc = "rp_read"
  /\ LET name == PARAM_ORDER[i] IN
     \E res \in ReqOutcomes :
       /\ Spend(res # "ok")
       /\ reqs' = Append(reqs, Req(3, HoldAddr(family)[name], <<>>, name, res))
       /\ IF res # "raise"
          THEN /\ cur' = [cur EXCEPT ![name] =
                           IF res = "err" THEN NaN
                           ELSE ParamValue(family, name, registers_to_float(hold[name]))]
               /\ pc' = IF i = Len(PARAM_ORDER) THEN "rp_finally" ELSE "rp_read"
               /\ i' = IF i = Len(PARAM_ORDER) THEN i ELSE i + 1
               /\ UNCHANGED exc
          ELSE /\ exc' = "TransportError"
               /\ pc' = "rp_finally"
               /\ UNCHANGED <<cur, i>>
  /\ UNCHANGED <<family, unit, hold, scen, op, stack, args, snap, report, meas,
                 ret, nopen, opened, unit0, pollVars, runVars, codecVars>>

\* _r(addr): one read of 2 holding registers; an error response raises
\* ModbusException
RPRead ==
  /\ pc = "rp_read"
  /\ LET name == PARAM_ORDER[i] IN
     \E res \in ReqOutcomes :
       /\ Spend(res # "ok")
       /\ reqs' = Append(reqs, Req(3, HoldAddr(family)[name], <<>>, name, res))
       /\ IF res = "ok"
          THEN /\ cur' = [cur EXCEPT ![name] =
                           ParamValue(family, name, registers_to_float(hold[name]))]
               /\ pc' = IF i = Len(PARAM_ORDER) THEN "rp_finally" ELSE "rp_read"
               /\ i' = IF i = Len(PARAM_ORDER) THEN i ELSE i + 1
               /\ UNCHANGED exc
          ELSE /\ exc' = IF res = "err" THEN "ModbusException" ELSE "TransportError"
               /\ pc' = "rp_finally"
               /\ UNCHANGED <<cur, i>>
  /\ UNCHANGED <<family, unit, hold, scen, op, stack, args, snap, report, meas,
                 ret, nopen, opened, unit0, pollVars, runVars, codecVars>>

\* a read_params that hands its session on to write_params instead of
\* closing it
RPFinally_KeepOpen ==
  /\ pc = "rp_finally"
  /\ nopen' = IF exc = "" /\ Len(stack) > 1 THEN nopen ELSE nopen - 1
  /\ IF exc # "" THEN Propagate(exc) /\ UNCHANGED snap
     ELSE /\ snap' = cur
          /\ IF Len(stack) = 1 THEN Return
             ELSE /\ stack' = IF stack[1] = "main" THEN <<"main", "write_params">>
                             ELSE <<"write_params">>
                  /\ pc' = "wp_connect"
                  /\ UNCHANGED <<exc, ret>>
  /\ UNCHANGED <<family, unit, hold, scen, op, i, args, cur, report, meas,
                 opened, reqs, unit0, budget, pollVars, runVars, codecVars>>

\* a write_params that goes on with whatever its initial read_params got
RPFinally_Swallow ==
  /\ pc = "rp_finally"
  /\ nopen' = nopen - 1
  /\ IF exc # "" /\ Len(stack) = 1 THEN Propagate(exc) /\ UNCHANGED snap
     ELSE /\ snap' = cur
          /\ IF Len(stack) = 1 THEN Return
             ELSE /\ stack' = IF stack[1] = "main" THEN <<"main", "write_params">>
                             ELSE <<"write_params">>
                  /\ pc' = "wp_connect"
                  /\ exc' = ""
                  /\ UNCHANGED ret
  /\ UNCHANGED <<family, unit, hold, scen, op, i, args, cur, report, meas,
                 opened, reqs, unit0, budget, pollVars, runVars, codecVars>>

\* finally: cli.close(); then the Params are returned, to write_params when
\* it is the caller, or the exception goes on
RPFinally ==
  /\ pc = "rp_finally"
  /\ nopen' = nopen - 1
  /\ IF exc # "" THEN Propagate(exc) /\ UNCHANGED snap
     ELSE /\ snap' = cur
          /\ IF Len(stack) = 1 THEN Return
             ELSE /\ stack' = IF stack[1] = "main" THEN <<"main", "write_params">>
                             ELSE <<"write_params">>
                  /\ pc' = "wp_connect"
                  /\ UNCHANGED <<exc, ret>>
  /\ UNCHANGED <<family, unit, hold, scen, op, i, args, cur, report, meas,
                 opened, reqs, unit0, budget, pollVars, runVars, codecVars>>

\* ------------------------------------------------------------------------
\* write_params
\* ------------------------------------------------------------------------

\* DDS661.write_params and SDM230.write_params begin with read_params; the
\* functions of modbus_meter.py are called as its command line does:
\* cur = read_params(conn), then write_params(conn, cur, newvals)
CallWriteParams ==
  \E b \in BaudArgs, p \in ParityArgs, s \in SlaveArgs :
    /\ Begin("write_params",
             IF family = "mm" THEN <<"main", "read_params">>
             ELSE <<"write_params", "read_params">>,
             [baud |-> b, parity |-> p, slave |-> s], "rp_connect")
    /\ UNCHANGED <<scen, pollVars, runVars, codecVars>>

\* cli = self._make_client(); if not cli.connect(): raise RuntimeError
WPConnect ==
  /\ pc = "wp_connect"
  /\ \E okc \in ConnOutcomes :
       /\ Spend(~okc)
       /\ IF okc
          THEN /\ OpenSession
               /\ pc' = "wp_plan"
               /\ i' = 1
               /\ UNCHANGED <<stack, exc, ret>>
          ELSE /\ Propagate("RuntimeError")
               /\ UNCHANGED <<nopen, opened, dopens, i>>
  /\ UNCHANGED <<family, unit, hold, scen, op, args, cur, snap, report, meas,
                 reqs, unit0, script, mode, devices, runVars, di, published, plog, codecVars>>

\* a plan loop that compares with == instead of a 1e-6 tolerance
Decision_Exact(curv, desired) ==
  IF desired = None THEN "skipped"
  ELSE IF FEq(curv, desired) THEN "unchanged"
  ELSE "write"

\* what the plan loop does with a field: nothing when no value is requested
\* or when the value read differs from it by less than 1e-6, else a write
Decision(curv, desired) ==
  IF desired = None THEN "skipped"
  ELSE IF Close(curv, desired) THEN "unchanged"
  ELSE "write"

\* a driver that takes every written value for its unit id
NewUnit_AnyField(name, desired) == Trunc(desired)

\* a driver that keeps its old unit id after a slave-id write
NewUnit_Stale(name, desired) == unit

\* the driver's unit id after a successful write of a field
NewUnit(name, desired) == IF name = "slave" THEN Trunc(desired) ELSE unit

\* a functional API that stores the written value under every key of the
\* caller's snapshot
CurAfterWrite_Clobber(name, desired) ==
  IF family = "mm" THEN [n \in DOMAIN cur |-> desired] ELSE cur

\* the snapshot after a successful write: modbus_meter.write_params stores
\* the written value in the caller's dict, current[name] = float(desired);
\* the classes leave their Params as read
CurAfterWrite(name, desired) ==
  IF family = "mm" THEN [cur EXCEPT ![name] = desired] ELSE cur

\* where the plan loop goes after the field at index i
PlanNext == IF i = Len(PLAN) THEN "wp_finally" ELSE "wp_plan"

\* one iteration of "for name, addr, desired in plan"
WPStep ==
  /\ pc = "wp_plan"
  /\ LET name    == PLAN[i]
         desired == Desired(family, name, args[name])
         regs    == float_to_registers(desired)
         todo    == Decision(cur[name], desired)
     IN
     IF todo # "write"
     THEN /\ report' = [report EXCEPT ![name] =
                          [tag |-> todo, val |-> desired]]
          /\ pc' = PlanNext
          /\ i' = IF i = Len(PLAN) THEN i ELSE i + 1
          /\ UNCHANGED <<reqs, hold, unit, cur, exc, budget>>
     ELSE IF regs = <<-1, -1>>
     THEN /\ exc' = "OverflowError"
          /\ pc' = "wp_finally"
          /\ UNCHANGED <<reqs, hold, unit, cur, report, i, budget>>
     ELSE \E res \in ReqOutcomes :
       /\ Spend(res # "ok")
       /\ reqs' = Append(reqs, Req(16, HoldAddr(family)[name], regs, name, res))
       /\ IF res = "raise"
          THEN /\ exc' = "TransportError"
               /\ pc' = "wp_finally"
               /\ UNCHANGED <<hold, unit, cur, report, i>>
          ELSE /\ pc' = PlanNext
               /\ i' = IF i = Len(PLAN) THEN i ELSE i + 1
               /\ UNCHANGED exc
               /\ IF res = "err"
                  THEN /\ report' = [report EXCEPT ![name] =
                                       [tag |-> "ERROR", val |-> desired]]
                       /\ UNCHANGED <<hold, unit, cur>>
                  ELSE /\ report' = [report EXCEPT ![name] =
                                       [tag |-> "written", val |-> desired]]
                       /\ hold' = [hold EXCEPT ![name] = regs]
                       /\ cur' = CurAfterWrite(name, desired)
                       /\ unit' = NewUnit(name, desired)
  /\ UNCHANGED <<family, scen, op, stack, args, snap, meas, ret, nopen, opened,
                 unit0, pollVars, runVars, codecVars>>

\* a write_params that closes its session on the normal path only
WPFinally_NoCloseOnError ==
  /\ pc = "wp_finally"
  /\ nopen' = IF exc # "" THEN nopen ELSE nopen - 1
  /\ IF exc # "" THEN Propagate(exc) ELSE Return
  /\ UNCHANGED <<family, unit, hold, scen, op, i, args, cur, snap, report, meas,
                 opened, reqs, unit0, budget, pollVars, runVars, codecVars>>

\* finally: cli.close(); then the report is returned or the exception goes on
WPFinally ==
  /\ pc = "wp_finally"
  /\ nopen' = nopen - 1
  /\ IF exc # "" THEN Propagate(exc) ELSE Return
  /\ UNCHANGED <<family, unit, hold, scen, op, i, args, cur, snap, report, meas,
                 opened, reqs, unit0, budget, pollVars, runVars, codecVars>>

\* ------------------------------------------------------------------------
\* read_measurements
\* ------------------------------------------------------------------------

CallReadMeasurements ==
  /\ Begin("read_measurements", <<"read_measurements">>, NoParams, "rm_connect")
  /\ scen' \in Scenarios
  /\ UNCHANGED <<pollVars, runVars, codecVars>>

\* a read_measurements that answers a failed connect() with an all-NaN record
RMConnect_AllNaN ==
  /\ pc = "rm_connect"
  /\ \E okc \in ConnOutcomes :
       /\ Spend(~okc)
       /\ IF okc
          THEN /\ OpenSession
               /\ pc' = "rm_read"
               /\ i' = 1
               /\ UNCHANGED <<stack, exc, ret, meas>>
          ELSE /\ meas' = [n \in MeasNames |-> NaN]
               /\ Return
               /\ UNCHANGED <<nopen, opened, dopens, i>>
  /\ UNCHANGED <<family, unit, hold, scen, op, args, cur, snap, report,
                 reqs, unit0, script, mode, devices, runVars, di, published, plog, codecVars>>

\* cli = self._make_client(); if not cli.connect(): raise RuntimeError
RMConnect ==
  /\ pc = "rm_connect"
  /\ \E okc \in ConnOutcomes :
       /\ Spend(~okc)
       /\ IF okc
          THEN /\ OpenSession
               /\ pc' = "rm_read"
               /\ i' = 1
               /\ UNCHANGED <<stack, exc, ret>>
          ELSE /\ Propagate("RuntimeError")
               /\ UNCHANGED <<nopen, opened, dopens, i>>
  /\ UNCHANGED <<family, unit, hold, scen, op, args, cur, snap, report, meas,
                 reqs, unit0, script, mode, devices, runVars, di, published, plog, codecVars>>

\* _rin(addr): one read of 2 input registers; an error response gives NaN
RMRead ==
  /\ pc = "rm_read"
  /\ LET name == MEAS_KEYS[i] IN
     \E res \in ReqOutcomes :
       /\ Spend(res # "ok")
       /\ reqs' = Append(reqs, Req(4, InAddr(family)[name], <<>>, name, res))
       /\ IF res = "raise"
          THEN /\ exc' = "TransportError"
               /\ pc' = "rm_finally"
               /\ UNCHANGED <<meas, i>>
          ELSE /\ meas' = [meas EXCEPT ![name] =
                            IF res = "err" THEN NaN
                            ELSE registers_to_float(InputRegs(scen, name))]
               /\ pc' = IF i = Len(MEAS_KEYS) THEN "rm_finally" ELSE "rm_read"
               /\ i' = IF i = Len(MEAS_KEYS) THEN i ELSE i + 1
               /\ UNCHANGED exc
  /\ UNCHANGED <<family, unit, hold, scen, op, stack, args, cur, snap, report,
                 ret, nopen, opened, unit0, pollVars, runVars, codecVars>>

\* finally: cli.close(); then the record is returned or the exception goes on
RMFinally ==
  /\ pc = "rm_finally"
  /\ nopen' = nopen - 1
  /\ IF exc # "" THEN Propagate(exc) ELSE Return
  /\ UNCHANGED <<family, unit, hold, scen, op, i, args, cur, snap, report, meas,
                 opened, reqs, unit0, budget, pollVars, runVars, codecVars>>

\* ------------------------------------------------------------------------
\* The drivers under any sequence of calls
\* ------------------------------------------------------------------------

InitDrv ==
  /\ family \in Families
  /\ unit = 1
  /\ hold = FactoryHold(family)
  /\ scen = 1
  /\ op = ""
  /\ stack = <<>>
  /\ pc = "idle"
  /\ i = 0
  /\ args = NoParams
  /\ cur = NoParams
  /\ snap = NoParams
  /\ report = NoReport
  /\ meas = NoMeas
  /\ ret = NoRet
  /\ exc = ""
  /\ nopen = 0
  /\ opened = 0
  /\ reqs = <<>>
  /\ unit0 = 1
  /\ budget = -1
  /\ script = "polling"
  /\ mode = "sequential"
  /\ devices = <<>>
  /\ di = 0
  /\ dopens = <<>>
  /\ published = <<>>
  /\ plog = <<>>
  /\ NoRun
  /\ NoCodec

NextDrv ==
  \/ CallReadParams
  \/ RPConnect
  \/ RPRead
  \/ RPFinally
  \/ CallWriteParams
  \/ WPConnect
  \/ WPStep
  \/ WPFinally
  \/ CallReadMeasurements
  \/ RMConnect
  \/ RMRead
  \/ RMFinally
  \/ TakeResult

SpecDrv == InitDrv /\ [][NextDrv]_vars

\* ---------------------------------------------------------------------------
\* Driver calls with a wider choice of requested values: rates outside the
\* SDM230 enum table and slave ids outside 1..247 or with a fraction.  The
\* drivers take any float (dds661.py 143-145, sdm230.py 157-159,
\* modbus_meter.py 98-100); the transport may fail at most MaxWideFaults times.
\* ---------------------------------------------------------------------------
MaxWideFaults == 1

BaudArgsWide == {None, Flt(9600), Flt(19200)}

ParityArgsWide == {None, Flt(1)}

SlaveArgsWide == {None, Flt(5), Flt(0), Flt(300), Norm(0, 5, -1)}

CallWriteParamsWide ==
  \E b \in BaudArgsWide, p \in ParityArgsWide, s \in SlaveArgsWide :
    /\ Begin("write_params",
             IF family = "mm" THEN <<"main", "read_params">>
             ELSE <<"write_params", "read_params">>,
             [baud |-> b, parity |-> p, slave |-> s], "rp_connect")
    /\ UNCHANGED <<scen, pollVars, runVars, codecVars>>

InitWide ==
  /\ family \in Families
  /\ unit = 1
  /\ hold = FactoryHold(family)
  /\ scen = 1
  /\ op = ""
  /\ stack = <<>>
  /\ pc = "idle"
  /\ i = 0
  /\ args = NoParams
  /\ cur = NoParams
  /\ snap = NoParams
  /\ report = NoReport
  /\ meas = NoMeas
  /\ ret = NoRet
  /\ exc = ""
  /\ nopen = 0
  /\ opened = 0
  /\ reqs = <<>>
  /\ unit0 = 1
  /\ budget = MaxWideFaults
  /\ script = "polling"
  /\ mode = "sequential"
  /\ devices = <<>>
  /\ di = 0
  /\ dopens = <<>>
  /\ published = <<>>
  /\ plog = <<>>
  /\ NoRun
  /\ NoCodec

NextWide ==
  \/ CallReadParams
  \/ RPConnect
  \/ RPRead
  \/ RPFinally
  \/ CallWriteParamsWide
  \/ WPConnect
  \/ WPStep
  \/ WPFinally
  \/ CallReadMeasurements
  \/ RMConnect
  \/ RMRead
  \/ RMFinally
  \/ TakeResult

SpecWide == InitWide /\ [][NextWide]_vars

\* ------------------------------------------------------------------------
\* The poll cycle: _poll_once of polling.py and of dds661_polling.py
\* ------------------------------------------------------------------------

\* longest device list of a configuration
MaxDevices == 3

\* transport and broker faults in one poll cycle
MaxFaults == 1

Scripts == {"polling", "dds661_polling"}

\* polling.read_mode; anything but "bulk" is read as sequential
Modes == {"sequential", "bulk"}

\* the device types polling.py has a driver for
DRIVERS == {"dds661", "sdm230"}

\* polling.py: the input addresses of the sequential reads, per type
ADDR_MAP == [dds661 |-> DDS661_IN, sdm230 |-> SDM230_IN]

\* dds661_polling.py: the input addresses of the sequential reads
FIELDS == DDS661_IN

\* one entry of cfg["devices"]: a mapping with an id ("map"), a mapping
\* without an id ("noid"), or a value that is no mapping ("notmap")
Entry(shape, type, protocol) ==
  [shape |-> shape, type |-> type, protocol |-> protocol]

\* the entries a configuration is made of; dds661_polling.py reads neither
\* "type" nor "protocol"
EntryKinds(s) ==
  IF s = "polling"
  THEN {Entry("map", "dds661", "rtu"), Entry("map", "sdm230", "rtu"),
        Entry("map", "dds661", "tcp"), Entry("map", "foo", "rtu"),
        Entry("noid", "dds661", "rtu"), Entry("notmap", "", "")}
  ELSE {Entry("map", "dds661", "rtu"), Entry("noid", "dds661", "rtu"),
        Entry("notmap", "", "")}

DeviceLists(s) == UNION {[1..n -> EntryKinds(s)] : n \in 0..MaxDevices}

\* int(d["id"]) of the entry at position d of the list
DeviceId(d) == d

\* the table of input registers the device at position d holds
DeviceScen(d) == 1 + (d % 2)

\* a poller that reads a device of unknown type with the default driver
DriverOf_Default(t) == IF t \in DRIVERS THEN t ELSE "dds661"

\* the driver type is resolved with: "" when polling.py has none
DriverOf(t) == IF t \in DRIVERS THEN t ELSE ""

\* the address of a field in the sequential reads of the script
FieldAddr(name) ==
  IF script = "polling" THEN ADDR_MAP[family][name] ELSE FIELDS[name]

\* a line of the log
LogEntry(kind, name, e) ==
  [kind |-> kind, dev |-> di, name |-> name, exn |-> e]

\* d.get("name") of the entry at position d: "" when the entry has none
DeviceName(d) == IF d % 2 = 1 THEN "named" ELSE ""

\* dev_type.upper()
Upper(t) == IF t = "dds661" THEN "DDS661" ELSE IF t = "sdm230" THEN "SDM230" ELSE t

\* name = d.get("name") or f"{dev_type.upper()} {unit_id}" in polling.py,
\* d.get("name") or f"meter_{unit_id}" in dds661_polling.py
DisplayName ==
  IF DeviceName(di) # ""
  THEN [given |-> DeviceName(di), prefix |-> "", id |-> 0]
  ELSE [given |-> "",
        prefix |-> IF script = "polling" THEN Upper(family) ELSE "meter",
        id |-> unit]

\* the record handed to client.publish, with the keys it has; "type" is ""
\* for dds661_polling.py, which puts no type in.  A field of vals that is
\* None stands for a key the reader did not set
Payload ==
  [dev |-> di, id |-> unit,
   type |-> IF script = "polling" THEN family ELSE "",
   name |-> DisplayName,
   keys |-> (IF script = "polling" THEN {"id", "type", "name"}
             ELSE {"id", "name"})
            \cup {n \in MeasNames : meas[n] # None},
   vals |-> meas]

\* what client.publish can come to
PubOutcomes == IF budget = 0 THEN {"ok"} ELSE {"ok", "raise"}

\* the loop "for name in MEAS_KEYS" goes on, or the function returns
SeqNext(at) ==
  IF i = Len(MEAS_KEYS) THEN Return /\ UNCHANGED i
  ELSE /\ i' = i + 1
       /\ pc' = at
       /\ UNCHANGED <<stack, exc, ret>>

\* _poll_once up to the device loop
PollBegin ==
  /\ Begin("_poll_once", <<"_poll_once">>, NoParams, "po_device")
  /\ devices # <<>>
  /\ di' = 1
  /\ UNCHANGED <<scen, script, mode, devices, runVars, dopens, published, plog, codecVars>>

\* "if not devices": a warning, and the cycle is over
PollEmpty ==
  /\ pc = "idle"
  /\ devices = <<>>
  /\ op' = "_poll_once"
  /\ plog' = Append(plog, LogEntry("nodevices", "", ""))
  /\ pc' = "done"
  /\ ret' = [st |-> "returned", exn |-> ""]
  /\ UNCHANGED <<family, unit, hold, scen, stack, i, args, cur, snap, report,
                 meas, exc, nopen, opened, reqs, unit0, budget, script, mode,
                 devices, runVars, di, dopens, published, codecVars>>

\* a device loop that looks at the read mode before the protocol
PollDevice_ModeFirst ==
  /\ pc = "po_device"
  /\ LET d   == devices[di]
         drv == IF script = "polling" THEN DriverOf(d.type) ELSE "dds661"
     IN
     IF d.shape # "map"
     THEN /\ exc' = IF d.shape = "noid" THEN "KeyError" ELSE "TypeError"
          /\ pc' = "po_except"
          /\ UNCHANGED <<family, unit, scen, stack, i, meas, plog>>
     ELSE IF drv = ""
     THEN /\ plog' = Append(plog, LogEntry("unsupported", "", ""))
          /\ pc' = "po_finally"
          /\ unit' = DeviceId(di)
          /\ UNCHANGED <<family, scen, stack, i, meas, exc>>
     ELSE /\ family' = drv
          /\ unit' = DeviceId(di)
          /\ scen' = DeviceScen(di)
          /\ meas' = NoMeas
          /\ i' = 1
          /\ IF mode = "bulk"
             THEN /\ stack' = <<"_poll_once", "_read_device_bulk",
                                "read_measurements">>
                  /\ pc' = "rm_connect"
             ELSE IF script = "polling" /\ d.protocol = "tcp"
             THEN /\ stack' = <<"_poll_once", "_read_device_sequential">>
                  /\ pc' = "tcp_connect"
             ELSE /\ stack' = <<"_poll_once", "_read_device_sequential">>
                  /\ pc' = "sq_connect"
          /\ UNCHANGED <<exc, plog>>
  /\ UNCHANGED <<hold, op, args, cur, snap, report, ret, nopen, opened, reqs,
                 unit0, budget, script, mode, devices, runVars, di, dopens, published, codecVars>>

\* the head of the device loop: id, type and protocol of the entry, then the
\* call of the reader the entry and the read mode select
PollDevice ==
  /\ pc = "po_device"
  /\ LET d   == devices[di]
         drv == IF script = "polling" THEN DriverOf(d.type) ELSE "dds661"
     IN
     IF d.shape # "map"
     THEN /\ exc' = IF d.shape = "noid" THEN "KeyError" ELSE "TypeError"
          /\ pc' = "po_except"
          /\ UNCHANGED <<family, unit, scen, stack, i, meas, plog>>
     ELSE IF drv = ""
     THEN /\ plog' = Append(plog, LogEntry("unsupported", "", ""))
          /\ pc' = "po_finally"
          /\ unit' = DeviceId(di)
          /\ UNCHANGED <<family, scen, stack, i, meas, exc>>
     ELSE /\ family' = drv
          /\ unit' = DeviceId(di)
          /\ scen' = DeviceScen(di)
          /\ meas' = NoMeas
          /\ i' = 1
          /\ IF script = "polling" /\ d.protocol = "tcp"
             THEN /\ stack' = <<"_poll_once", "_read_device_sequential">>
                  /\ pc' = "tcp_connect"
             ELSE IF mode = "bulk"
             THEN /\ stack' = <<"_poll_once", "_read_device_bulk",
                                "read_measurements">>
                  /\ pc' = "rm_connect"
             ELSE /\ stack' = <<"_poll_once", "_read_device_sequential">>
                  /\ pc' = "sq_connect"
          /\ UNCHANGED <<exc, plog>>
  /\ UNCHANGED <<hold, op, args, cur, snap, report, ret, nopen, opened, reqs,
                 unit0, budget, script, mode, devices, runVars, di, dopens, published, codecVars>>

\* sequential read over the serial line: a client of its own for the field;
\* a connect() that fails raises RuntimeError, which is logged and gives NaN
SQConnect ==
  /\ pc = "sq_connect"
  /\ \E okc \in ConnOutcomes :
       /\ Spend(~okc)
       /\ IF okc
          THEN /\ OpenSession
               /\ pc' = "sq_read"
               /\ UNCHANGED <<stack, exc, ret, i, meas, plog>>
          ELSE /\ plog' = Append(plog, LogEntry("read", MEAS_KEYS[i], "RuntimeError"))
               /\ meas' = [meas EXCEPT ![MEAS_KEYS[i]] = NaN]
               /\ SeqNext("sq_connect")
               /\ UNCHANGED <<nopen, opened, dopens>>
  /\ UNCHANGED <<family, unit, hold, scen, op, args, cur, snap, report, reqs,
                 unit0, script, mode, devices, runVars, di, published, codecVars>>

\* a serial reader that reads the field from the holding registers
SQRead_Holding ==
  /\ pc = "sq_read"
  /\ LET name == MEAS_KEYS[i] IN
     \E res \in ReqOutcomes :
       /\ Spend(res # "ok")
       /\ reqs' = Append(reqs, Req(3, FieldAddr(name), <<>>, name, res))
       /\ meas' = [meas EXCEPT ![name] =
                     IF res = "ok" THEN registers_to_float(InputRegs(scen, name))
                     ELSE NaN]
       /\ plog' = IF res = "raise"
                  THEN Append(plog, LogEntry("read", name, "TransportError"))
                  ELSE plog
       /\ nopen' = nopen - 1
       /\ SeqNext("sq_connect")
  /\ UNCHANGED <<family, unit, hold, scen, op, args, cur, snap, report, opened,
                 unit0, script, mode, devices, runVars, di, dopens, published, codecVars>>

\* a sequential reader that leaves the client of each field open
SQRead_KeepOpen ==
  /\ pc = "sq_read"
  /\ LET name == MEAS_KEYS[i] IN
     \E res \in ReqOutcomes :
       /\ Spend(res # "ok")
       /\ reqs' = Append(reqs, Req(4, FieldAddr(name), <<>>, name, res))
       /\ meas' = [meas EXCEPT ![name] =
                     IF res = "ok" THEN registers_to_float(InputRegs(scen, name))
                     ELSE NaN]
       /\ plog' = IF res = "raise"
                  THEN Append(plog, LogEntry("read", name, "TransportError"))
                  ELSE plog
       /\ nopen' = nopen
       /\ SeqNext("sq_connect")
  /\ UNCHANGED <<family, unit, hold, scen, op, args, cur, snap, report, opened,
                 unit0, script, mode, devices, runVars, di, dopens, published, codecVars>>

\* a sequential reader that asks again for a field whose read failed
SQRead_Retry ==
  /\ pc = "sq_read"
  /\ LET name == MEAS_KEYS[i] IN
     \E res \in ReqOutcomes :
       /\ Spend(res # "ok")
       /\ reqs' = Append(reqs, Req(4, FieldAddr(name), <<>>, name, res))
       /\ meas' = [meas EXCEPT ![name] =
                     IF res = "ok" THEN registers_to_float(InputRegs(scen, name))
                     ELSE NaN]
       /\ plog' = IF res = "raise"
                  THEN Append(plog, LogEntry("read", name, "TransportError"))
                  ELSE plog
       /\ nopen' = nopen - 1
       /\ IF res = "ok"
          THEN SeqNext("sq_connect")
          ELSE /\ pc' = "sq_connect"
               /\ UNCHANGED <<i, stack, exc, ret>>
  /\ UNCHANGED <<family, unit, hold, scen, op, args, cur, snap, report, opened,
                 unit0, script, mode, devices, runVars, di, dopens, published,
                 codecVars>>

\* the read of the field on its client, then finally: cli.close().  An
\* error response gives NaN; an exception is logged and gives NaN
SQRead ==
  /\ pc = "sq_read"
  /\ LET name == MEAS_KEYS[i] IN
     \E res \in ReqOutcomes :
       /\ Spend(res # "ok")
       /\ reqs' = Append(reqs, Req(4, FieldAddr(name), <<>>, name, res))
       /\ meas' = [meas EXCEPT ![name] =
                     IF res = "ok" THEN registers_to_float(InputRegs(scen, name))
                     ELSE NaN]
       /\ plog' = IF res = "raise"
                  THEN Append(plog, LogEntry("read", name, "TransportError"))
                  ELSE plog
       /\ nopen' = nopen - 1
       /\ SeqNext("sq_connect")
  /\ UNCHANGED <<family, unit, hold, scen, op, args, cur, snap, report, opened,
                 unit0, script, mode, devices, runVars, di, dopens, published, codecVars>>

\* a TCP reader that does not look at the result of connect(): the fields
\* are read on whether the connection was established or not
TCPConnect_Unchecked ==
  /\ pc = "tcp_connect"
  /\ \E okc \in ConnOutcomes :
       /\ Spend(~okc)
       /\ IF okc
          THEN OpenSession
          ELSE /\ nopen' = nopen + 1
               /\ UNCHANGED <<opened, dopens>>
       /\ pc' = "tcp_read"
       /\ UNCHANGED <<stack, exc, ret>>
  /\ UNCHANGED <<family, unit, hold, scen, op, i, args, cur, snap, report, meas,
                 reqs, unit0, script, mode, devices, runVars, di, published, plog, codecVars>>

\* sequential read over TCP: one client for the device; a connect() that
\* fails raises RuntimeError out of the reader
TCPConnect ==
  /\ pc = "tcp_connect"
  /\ \E okc \in ConnOutcomes :
       /\ Spend(~okc)
       /\ IF okc
          THEN /\ OpenSession
               /\ pc' = "tcp_read"
               /\ UNCHANGED <<stack, exc, ret>>
          ELSE /\ Propagate("RuntimeError")
               /\ UNCHANGED <<nopen, opened, dopens>>
  /\ UNCHANGED <<family, unit, hold, scen, op, i, args, cur, snap, report, meas,
                 reqs, unit0, script, mode, devices, runVars, di, published, plog, codecVars>>

\* a TCP reader without the try/except around the read of a field: an
\* exception ends the device pass
TCPRead_Abort ==
  /\ pc = "tcp_read"
  /\ LET name == MEAS_KEYS[i] IN
     \E res \in ReqOutcomes :
       /\ Spend(res # "ok")
       /\ reqs' = Append(reqs, Req(4, FieldAddr(name), <<>>, name, res))
       /\ UNCHANGED plog
       /\ IF res = "raise"
          THEN /\ nopen' = nopen - 1
               /\ Propagate("TransportError")
               /\ UNCHANGED <<meas, i>>
          ELSE /\ meas' = [meas EXCEPT ![name] =
                            IF res = "ok"
                            THEN registers_to_float(InputRegs(scen, name))
                            ELSE NaN]
               /\ pc' = IF i = Len(MEAS_KEYS) THEN "tcp_finally" ELSE "tcp_read"
               /\ i' = IF i = Len(MEAS_KEYS) THEN i ELSE i + 1
               /\ UNCHANGED <<stack, ret, exc, nopen>>
  /\ UNCHANGED <<family, unit, hold, scen, op, args, cur, snap, report,
                 opened, unit0, script, mode, devices, runVars, di, dopens, published, codecVars>>

\* the read of one field on the TCP client
TCPRead ==
  /\ pc = "tcp_read"
  /\ LET name == MEAS_KEYS[i] IN
     \E res \in ReqOutcomes :
       /\ Spend(res # "ok")
       /\ reqs' = Append(reqs, Req(4, FieldAddr(name), <<>>, name, res))
       /\ meas' = [meas EXCEPT ![name] =
                     IF res = "ok" THEN registers_to_float(InputRegs(scen, name))
                     ELSE NaN]
       /\ plog' = IF res = "raise"
                  THEN Append(plog, LogEntry("read", name, "TransportError"))
                  ELSE plog
       /\ pc' = IF i = Len(MEAS_KEYS) THEN "tcp_finally" ELSE "tcp_read"
       /\ i' = IF i = Len(MEAS_KEYS) THEN i ELSE i + 1
  /\ UNCHANGED <<family, unit, hold, scen, op, stack, args, cur, snap, report,
                 ret, exc, nopen, opened, unit0, script, mode, devices, runVars, di,
                 dopens, published, codecVars>>

\* a TCP reader that leaves its client open at the end of the device pass
TCPFinally_Leak ==
  /\ pc = "tcp_finally"
  /\ UNCHANGED nopen
  /\ Return
  /\ UNCHANGED <<family, unit, hold, scen, op, i, args, cur, snap, report, meas,
                 opened, reqs, unit0, budget, pollVars, runVars, codecVars>>

\* finally: cli.close(); return out
TCPFinally ==
  /\ pc = "tcp_finally"
  /\ nopen' = nopen - 1
  /\ Return
  /\ UNCHANGED <<family, unit, hold, scen, op, i, args, cur, snap, report, meas,
                 opened, reqs, unit0, budget, pollVars, runVars, codecVars>>

\* payload, topic and client.publish
PollPublish ==
  /\ pc = "po_publish"
  /\ \E res \in PubOutcomes :
       /\ Spend(res # "ok")
       /\ IF res = "ok"
          THEN /\ published' = Append(published, Payload)
               /\ pc' = "po_finally"
               /\ UNCHANGED exc
          ELSE /\ exc' = "PublishError"
               /\ pc' = "po_except"
               /\ UNCHANGED published
  /\ UNCHANGED <<family, unit, hold, scen, op, stack, i, args, cur, snap, report,
                 meas, ret, nopen, opened, reqs, unit0, script, mode, devices, runVars,
                 di, dopens, plog, codecVars>>

\* except Exception as e: log.error(..., d.get("id"), e).  An entry that is
\* no mapping has no get: the handler raises AttributeError, and after the
\* finally clause the exception leaves _poll_once
PollExcept ==
  /\ pc = "po_except"
  /\ IF devices[di].shape = "notmap"
     THEN /\ exc' = "AttributeError"
          /\ stack' = <<>>
          /\ pc' = "done"
          /\ ret' = [st |-> "raised", exn |-> "AttributeError"]
          /\ UNCHANGED plog
     ELSE /\ plog' = Append(plog, LogEntry("failed", "", exc))
          /\ exc' = ""
          /\ pc' = "po_finally"
          /\ UNCHANGED <<stack, ret>>
  /\ UNCHANGED <<family, unit, hold, scen, op, i, args, cur, snap, report, meas,
                 nopen, opened, reqs, unit0, budget, script, mode, devices, runVars, di,
                 dopens, published, codecVars>>

\* a device loop that goes through the list a second time
PollFinally_Revisit ==
  /\ pc = "po_finally"
  /\ IF di < Len(devices)
     THEN /\ di' = di + 1
          /\ pc' = "po_device"
          /\ UNCHANGED <<stack, ret>>
     ELSE IF Len(published) + Len(plog) <= Len(devices)
     THEN /\ di' = 1
          /\ pc' = "po_device"
          /\ UNCHANGED <<stack, ret>>
     ELSE /\ stack' = <<>>
          /\ pc' = "done"
          /\ ret' = [st |-> "returned", exn |-> ""]
          /\ UNCHANGED di
  /\ UNCHANGED <<family, unit, hold, scen, op, i, args, cur, snap, report, meas,
                 exc, nopen, opened, reqs, unit0, budget, script, mode, devices, runVars,
                 dopens, published, plog, codecVars>>

\* finally: the pause between devices; then the next device, or the end of
\* the cycle
PollFinally ==
  /\ pc = "po_finally"
  /\ IF di < Len(devices)
     THEN /\ di' = di + 1
          /\ pc' = "po_device"
          /\ UNCHANGED <<stack, ret>>
     ELSE /\ stack' = <<>>
          /\ pc' = "done"
          /\ ret' = [st |-> "returned", exn |-> ""]
          /\ UNCHANGED di
  /\ UNCHANGED <<family, unit, hold, scen, op, i, args, cur, snap, report, meas,
                 exc, nopen, opened, reqs, unit0, budget, script, mode, devices, runVars,
                 dopens, published, plog, codecVars>>

InitPoll ==
  /\ family = "dds661"
  /\ unit = 1
  /\ hold = FactoryHold("dds661")
  /\ scen = 1
  /\ op = ""
  /\ stack = <<>>
  /\ pc = "idle"
  /\ i = 0
  /\ args = NoParams
  /\ cur = NoParams
  /\ snap = NoParams
  /\ report = NoReport
  /\ meas = NoMeas
  /\ ret = NoRet
  /\ exc = ""
  /\ nopen = 0
  /\ opened = 0
  /\ reqs = <<>>
  /\ unit0 = 1
  /\ budget = MaxFaults
  /\ script \in Scripts
  /\ mode \in Modes
  /\ devices \in DeviceLists(script)
  /\ di = 0
  /\ dopens = [d \in 1..Len(devices) |-> 0]
  /\ published = <<>>
  /\ plog = <<>>
  /\ NoRun
  /\ NoCodec

NextPoll ==
  \/ PollBegin
  \/ PollEmpty
  \/ PollDevice
  \/ SQConnect
  \/ SQRead
  \/ TCPConnect
  \/ TCPRead
  \/ TCPFinally
  \/ RMConnect
  \/ RMRead
  \/ RMFinally
  \/ PollPublish
  \/ PollExcept
  \/ PollFinally

SpecPoll == InitPoll /\ [][NextPoll]_vars

\* ------------------------------------------------------------------------
\* run_poll of polling.py and of dds661_polling.py
\* ------------------------------------------------------------------------

\* poll cycles of one run of the periodic loop
MaxCycles == 2

\* longest device list of a run
MaxRunDevices == 2

\* polling.period_s (polling.py) or polling.interval_s (dds661_polling.py).
\* Times are whole clock ticks
Periods == {1, 5}

\* what the two clock readings around a cycle can differ by: time.time() of
\* polling.py can step back, time.monotonic() of dds661_polling.py cannot
Durations(s) == IF s = "polling" THEN {-1, 2, 5, 7} ELSE {0, 2, 5, 7}

RunDeviceLists(s) == UNION {[1..n -> EntryKinds(s)] : n \in 0..MaxRunDevices}

\* a pacing without the clamp at zero
Delay_Unclamped(p, e) == p - e

\* delay = max(0.0, period_s - elapsed)
Delay(p, e) == IF p - e > 0 THEN p - e ELSE 0

\* the handlers of SIGINT and SIGTERM are installed: in dds661_polling.py
\* before the oneshot branch, in polling.py after it
HandlersInstalled == script = "polling" => ~oneshot

\* a run_poll that looks at the stop flag before its single cycle
RunStart_CheckStop ==
  /\ rpc = "start"
  /\ IF stopEvt
     THEN /\ rpc' = "shutdown"
          /\ UNCHANGED <<pc, cycles>>
     ELSE IF oneshot
     THEN /\ rpc' = "cycle"
          /\ pc' = "idle"
          /\ cycles' = cycles + 1
     ELSE /\ rpc' = "loop_test"
          /\ UNCHANGED <<pc, cycles>>
  /\ UNCHANGED <<family, unit, hold, scen, op, stack, i, args, cur, snap, report,
                 meas, ret, exc, nopen, opened, reqs, unit0, budget, pollVars,
                 oneshot, stopEvt, period, elapsed, delay, slept, mqttlog, codecVars>>

\* run_poll up to "if oneshot": link, client, connect, discovery; then the
\* single cycle, or the loop
RunStart ==
  /\ rpc = "start"
  /\ IF oneshot
     THEN /\ rpc' = "cycle"
          /\ pc' = "idle"
          /\ cycles' = cycles + 1
     ELSE /\ rpc' = "loop_test"
          /\ UNCHANGED <<pc, cycles>>
  /\ UNCHANGED <<family, unit, hold, scen, op, stack, i, args, cur, snap, report,
                 meas, ret, exc, nopen, opened, reqs, unit0, budget, pollVars,
                 oneshot, stopEvt, period, elapsed, delay, slept, mqttlog, codecVars>>

\* a loop that does not test the stop flag: while True
RunLoopTest_NoTest ==
  /\ rpc = "loop_test"
  /\ cycles < MaxCycles
  /\ rpc' = "cycle"
  /\ pc' = "idle"
  /\ cycles' = cycles + 1
  /\ UNCHANGED <<family, unit, hold, scen, op, stack, i, args, cur, snap, report,
                 meas, ret, exc, nopen, opened, reqs, unit0, budget, pollVars,
                 oneshot, stopEvt, period, elapsed, delay, slept, mqttlog, codecVars>>

\* while not _stop_evt.is_set(): start = now; _poll_once(client, cfg, link)
RunLoopTest ==
  /\ rpc = "loop_test"
  /\ IF stopEvt
     THEN /\ rpc' = "shutdown"
          /\ UNCHANGED <<pc, cycles>>
     ELSE /\ cycles < MaxCycles
          /\ rpc' = "cycle"
          /\ pc' = "idle"
          /\ cycles' = cycles + 1
  /\ UNCHANGED <<family, unit, hold, scen, op, stack, i, args, cur, snap, report,
                 meas, ret, exc, nopen, opened, reqs, unit0, budget, pollVars,
                 oneshot, stopEvt, period, elapsed, delay, slept, mqttlog, codecVars>>

\* _poll_once has ended.  Its exception leaves run_poll; a oneshot run
\* returns (polling.py stops the client first); the loop measures elapsed
\* and computes the delay
RunAfterCycle ==
  /\ rpc = "cycle"
  /\ pc = "done"
  /\ pc' = "run"
  /\ IF ret.st = "raised"
     THEN /\ rpc' = "raised"
          /\ UNCHANGED <<elapsed, delay, mqttlog>>
     ELSE IF oneshot
     THEN /\ rpc' = "returned"
          /\ mqttlog' = IF script = "polling"
                        THEN mqttlog \o <<"loop_stop", "disconnect">>
                        ELSE mqttlog
          /\ UNCHANGED <<elapsed, delay>>
     ELSE /\ rpc' = "wait"
          /\ \E e \in Durations(script) :
               /\ elapsed' = e
               /\ delay' = Delay(period, e)
          /\ UNCHANGED mqttlog
  /\ UNCHANGED <<family, unit, hold, scen, op, stack, i, args, cur, snap, report,
                 meas, ret, exc, nopen, opened, reqs, unit0, budget, pollVars,
                 oneshot, stopEvt, period, slept, cycles, codecVars>>

\* _stop_evt.wait(delay): at once when the flag is set, after the delay when
\* no signal comes, or earlier at the moment a signal sets the flag.
\* dds661_polling.py breaks out of the loop when wait returns True,
\* polling.py goes back to the loop test
RunWait ==
  /\ rpc = "wait"
  /\ \/ /\ stopEvt
        /\ slept' = 0
        /\ UNCHANGED stopEvt
     \/ /\ ~stopEvt
        /\ slept' = delay
        /\ UNCHANGED stopEvt
     \/ /\ ~stopEvt
        /\ \E t \in 0..(delay - 1) : slept' = t
        /\ stopEvt' = TRUE
  /\ rpc' = IF script = "dds661_polling" /\ stopEvt' THEN "shutdown"
            ELSE "loop_test"
  /\ UNCHANGED <<drvVars, pollVars, oneshot, period, elapsed, delay, cycles,
                 mqttlog, codecVars>>

\* after the loop: dds661_polling.py publishes "offline" (retained) on the
\* status topic; both stop the client's loop and disconnect
RunShutdown ==
  /\ rpc = "shutdown"
  /\ rpc' = "stopped"
  /\ mqttlog' = IF script = "dds661_polling"
                THEN mqttlog \o <<"offline", "loop_stop", "disconnect">>
                ELSE mqttlog \o <<"loop_stop", "disconnect">>
  /\ UNCHANGED <<drvVars, pollVars, oneshot, stopEvt, period, elapsed, delay,
                 slept, cycles, codecVars>>

\* _handle_sigterm: a signal outside the inter-cycle wait sets the flag
Signal ==
  /\ rpc \in {"loop_test", "cycle"}
  /\ HandlersInstalled
  /\ ~stopEvt
  /\ stopEvt' = TRUE
  /\ UNCHANGED <<drvVars, pollVars, oneshot, rpc, period, elapsed, delay, slept,
                 cycles, mqttlog, codecVars>>

InitRun ==
  /\ family = "dds661"
  /\ unit = 1
  /\ hold = FactoryHold("dds661")
  /\ scen = 1
  /\ op = ""
  /\ stack = <<>>
  /\ pc = "run"
  /\ i = 0
  /\ args = NoParams
  /\ cur = NoParams
  /\ snap = NoParams
  /\ report = NoReport
  /\ meas = NoMeas
  /\ ret = NoRet
  /\ exc = ""
  /\ nopen = 0
  /\ opened = 0
  /\ reqs = <<>>
  /\ unit0 = 1
  /\ budget = 0
  /\ script \in Scripts
  /\ mode \in Modes
  /\ devices \in RunDeviceLists(script)
  /\ di = 0
  /\ dopens = [d \in 1..Len(devices) |-> 0]
  /\ published = <<>>
  /\ plog = <<>>
  /\ oneshot \in BOOLEAN
  /\ stopEvt \in BOOLEAN
  /\ rpc = "start"
  /\ period \in Periods
  /\ elapsed = 0
  /\ delay = 0
  /\ slept = 0
  /\ cycles = 0
  /\ mqttlog = <<>>
  /\ NoCodec

NextRun ==
  \/ RunStart
  \/ RunLoopTest
  \/ RunAfterCycle
  \/ RunWait
  \/ RunShutdown
  \/ Signal
  \/ PollBegin
  \/ PollEmpty
  \/ PollDevice
  \/ SQConnect
  \/ SQRead
  \/ TCPConnect
  \/ TCPRead
  \/ TCPFinally
  \/ RMConnect
  \/ RMRead
  \/ RMFinally
  \/ PollPublish
  \/ PollExcept
  \/ PollFinally

SpecRun == InitRun /\ [][NextRun]_vars

\* the steps of the program itself: everything but the arrival of a signal
RunProgram ==
  \/ RunStart
  \/ RunLoopTest
  \/ RunAfterCycle
  \/ RunWait
  \/ RunShutdown
  \/ PollBegin
  \/ PollEmpty
  \/ PollDevice
  \/ SQConnect
  \/ SQRead
  \/ TCPConnect
  \/ TCPRead
  \/ TCPFinally
  \/ RMConnect
  \/ RMRead
  \/ RMFinally
  \/ PollPublish
  \/ PollExcept
  \/ PollFinally

\* run_poll is one thread whose calls all return (connect, the register
\* requests and publish have timeouts; the wait has one): the program takes
\* its next step whenever it has one.  Nothing is assumed about signals
SpecRunFair == SpecRun /\ WF_vars(RunProgram)

\* ------------------------------------------------------------------------
\* The codec on its own: _float_to_registers and _registers_to_float
\* ------------------------------------------------------------------------

\* high words of the register pairs handed to the decoder: zero and
\* subnormals, smallest normal, 1.0, 1200.0, 9544.0, 9600.0, largest finite,
\* infinity, NaN, and negative ones
CodecHi ==
  {0, 1, 127, 128, 16256, 17558, 17941, 17942, 32639, 32640, 32704,
   32768, 32896, 49024, 50710, 65407, 65535}

\* low words of the register pairs handed to the decoder
CodecLo == {0, 1, 8192, 32768, 65535}

\* the Python floats handed to the encoder: +0.0, -0.0, small integers, the
\* baud rates, 0.5, 1 + 2^-21, the smallest subnormal and the largest finite
\* float32; then values that are no float32 (2^24 + 1, 2^-150), a value too
\* large for a float32 (2^128), the infinities and NaN
CodecValues ==
  {Flt(0), Norm(1, 0, 0), Flt(1), Flt(-1), Flt(5), Flt(1200), Flt(9544),
   Flt(9600), Flt(-9600), Norm(0, 1, -1), Norm(0, 2097153, -21),
   Norm(0, 1, -149), Norm(1, 3, -149), Norm(0, 16777215, 104),
   Norm(0, 16777217, 0), Norm(0, 1, -150), Norm(0, 1, 128),
   Inf(0), Inf(1), NaN}

\* hi, lo = _float_to_registers(x); struct.pack raises OverflowError when x
\* is too large for a float32
CodecEncode ==
  /\ cpc = "enc"
  /\ cregs' = float_to_registers(cx)
  /\ cpc' = IF cregs' = <<-1, -1>> THEN "raised" ELSE "enc_dec"
  /\ UNCHANGED <<drvVars, pollVars, runVars, cx, cy, cw>>

\* y = _registers_to_float((hi, lo)) of the pair just encoded
CodecDecodeBack ==
  /\ cpc = "enc_dec"
  /\ cy' = registers_to_float(cregs)
  /\ cpc' = "done_x"
  /\ UNCHANGED <<drvVars, pollVars, runVars, cx, cregs, cw>>

\* x = _registers_to_float((hi, lo)) of a pair a device sent
CodecDecode ==
  /\ cpc = "dec"
  /\ cx' = registers_to_float(cregs)
  /\ cpc' = "dec_enc"
  /\ UNCHANGED <<drvVars, pollVars, runVars, cregs, cy, cw>>

\* hi, lo = _float_to_registers(x) of the float just decoded
CodecEncodeBack ==
  /\ cpc = "dec_enc"
  /\ cw' = float_to_registers(cx)
  /\ cpc' = "done_w"
  /\ UNCHANGED <<drvVars, pollVars, runVars, cx, cregs, cy>>

InitCodec ==
  /\ family = "dds661"
  /\ unit = 1
  /\ hold = FactoryHold("dds661")
  /\ scen = 1
  /\ op = ""
  /\ stack = <<>>
  /\ pc = "codec"
  /\ i = 0
  /\ args = NoParams
  /\ cur = NoParams
  /\ snap = NoParams
  /\ report = NoReport
  /\ meas = NoMeas
  /\ ret = NoRet
  /\ exc = ""
  /\ nopen = 0
  /\ opened = 0
  /\ reqs = <<>>
  /\ unit0 = 1
  /\ budget = 0
  /\ script = "polling"
  /\ mode = "sequential"
  /\ devices = <<>>
  /\ di = 0
  /\ dopens = <<>>
  /\ published = <<>>
  /\ plog = <<>>
  /\ NoRun
  /\ cy = None
  /\ cw = <<>>
  /\ \/ /\ cpc = "enc"
        /\ cx \in CodecValues
        /\ cregs = <<>>
     \/ /\ cpc = "dec"
        /\ cx = None
        /\ cregs \in CodecHi \X CodecLo

NextCodec ==
  \/ CodecEncode
  \/ CodecDecodeBack
  \/ CodecDecode
  \/ CodecEncodeBack

SpecCodec == InitCodec /\ [][NextCodec]_vars

\* ------------------------------------------------------------------------
\* The command line of meter.py
\* ------------------------------------------------------------------------

\* longest device list of the configuration handed to meter.py
MaxCliDevices == 2

\* the sub-commands of the argument parser
CliCmds == {"read", "write"}

\* --slave
CliSlaves == {1, 2}

CliDeviceLists == UNION {[1..n -> EntryKinds("polling")] : n \in 0..MaxCliDevices}

\* the first entry of the configuration whose int(d.get("id")) is --slave
\* (0 when there is none): an entry without id or that is no mapping raises
\* inside the try and is passed over
CliMatch ==
  IF unit \in 1..Len(devices) /\ devices[unit].shape = "map" THEN unit ELSE 0

\* _resolve_type without --type: the type of the matching entry, else dds661
CliType == IF CliMatch = 0 THEN "dds661" ELSE devices[CliMatch].type

\* _resolve_protocol without --protocol: the protocol of the matching entry,
\* else rtu
CliProtocol == IF CliMatch = 0 THEN "rtu" ELSE devices[CliMatch].protocol

\* python3 meter.py ...: the module is compiled before any of it runs.  The
\* dispatch code after main() stands at module level and has a "return" in
\* it, so the compiler raises SyntaxError and nothing is executed
MeterCompile ==
  /\ pc = "cli_compile"
  /\ exc' = "SyntaxError"
  /\ ret' = [st |-> "raised", exn |-> "SyntaxError"]
  /\ stack' = <<>>
  /\ pc' = "done"
  /\ UNCHANGED <<family, unit, hold, scen, op, i, args, cur, snap, report, meas,
                 nopen, opened, reqs, unit0, budget, pollVars, runVars,
                 codecVars>>

InitCli ==
  /\ family = "dds661"
  /\ unit \in CliSlaves
  /\ hold = FactoryHold("dds661")
  /\ scen = 1
  /\ op \in {"meter.py " \o c : c \in CliCmds}
  /\ stack = <<"meter.py">>
  /\ pc = "cli_compile"
  /\ i = 0
  /\ args \in IF op = "meter.py write"
              THEN [baud : BaudArgs, parity : ParityArgs, slave : SlaveArgs]
              ELSE {NoParams}
  /\ cur = NoParams
  /\ snap = NoParams
  /\ report = NoReport
  /\ meas = NoMeas
  /\ ret = NoRet
  /\ exc = ""
  /\ nopen = 0
  /\ opened = 0
  /\ reqs = <<>>
  /\ unit0 = unit
  /\ budget = 0
  /\ script = "polling"
  /\ mode = "sequential"
  /\ devices \in CliDeviceLists
  /\ di = 0
  /\ dopens = [d \in 1..Len(devices) |-> 0]
  /\ published = <<>>
  /\ plog = <<>>
  /\ NoRun
  /\ NoCodec

NextCli ==
  \/ MeterCompile

SpecCli == InitCli /\ [][NextCli]_vars

\* ------------------------------------------------------------------------
\* Properties of the driver calls
\* ------------------------------------------------------------------------

ParamNames == {"baud", "parity", "slave"}

\* the driver classes DDS661 and SDM230
Classes == {"dds661", "sdm230"}

\* the write requests issued for a field in the current call
WritesOf(n) == {k \in 1..Len(reqs) : reqs[k].fc = 16 /\ reqs[k].name = n}

\* C1: read_measurements of DDS661 and SDM230 on a session that opened:
\* whatever fields fail to read, by an exception of the transport or by an
\* error response, the call returns normally, all 8 fields are requested,
\* the failed fields are NaN and every other field holds its decoded value.
C1_FieldIsolation ==
  (pc = "done" /\ op = "read_measurements" /\ family \in Classes /\ opened = 1) =>
    /\ ret.st = "returned"
    /\ Len(reqs) = Len(MEAS_KEYS)
    /\ \A k \in 1..Len(reqs) :
         /\ reqs[k].name = MEAS_KEYS[k]
         /\ meas[MEAS_KEYS[k]] =
              IF reqs[k].res = "ok"
              THEN registers_to_float(InputRegs(scen, MEAS_KEYS[k]))
              ELSE NaN

C4_Rank == [slave |-> 1, parity |-> 2, baud |-> 3]

\* C4: in every write_params call the write requests go out in the order
\* slave, parity, baud: no parity write before a slave write of the call, no
\* baud write before a slave or parity write of the call.
C4_WriteOrder ==
  \A a, b \in 1..Len(reqs) :
    (a < b /\ reqs[a].fc = 16 /\ reqs[b].fc = 16) =>
      C4_Rank[reqs[a].name] < C4_Rank[reqs[b].name]

\* a call that wrote all three fields
C4_Witness ==
  /\ pc = "done"
  /\ op = "write_params"
  /\ \A n \in ParamNames : WritesOf(n) # {}

\* a slave-id write of this call succeeded before request k
C5_SlaveWritten(k) ==
  \E j \in 1..(k - 1) :
    reqs[j].fc = 16 /\ reqs[j].name = "slave" /\ reqs[j].res = "ok"

\* C5: every request of a write_params call carries the driver's unit id of
\* the moment: the old id up to and including the slave-id write, and the
\* new id, which the driver holds as soon as that write has succeeded, for
\* every later write of the call.
C5_UnitId ==
  op = "write_params" =>
    /\ \A k \in 1..Len(reqs) :
         reqs[k].unit = IF C5_SlaveWritten(k) THEN Trunc(args.slave) ELSE unit0
    /\ unit = IF C5_SlaveWritten(Len(reqs) + 1) THEN Trunc(args.slave) ELSE unit0

\* a parity or baud write issued under the new id 5 after the slave id was
\* changed from 1
C5_Witness ==
  /\ op = "write_params"
  /\ unit0 = 1
  /\ \E k \in 1..Len(reqs) :
       /\ reqs[k].fc = 16
       /\ reqs[k].name # "slave"
       /\ C5_SlaveWritten(k)
       /\ reqs[k].unit = 5

\* C6: when the write of a planned field fails, that field's outcome is an
\* error entry, every planned field still gets its outcome, the call returns
\* the report, and an earlier successful write stays written.
C6_WriteFailureIsolated ==
  ( /\ pc = "done"
    /\ op = "write_params"
    /\ family \in Classes
    /\ \E k \in 1..Len(reqs) : reqs[k].fc = 16 /\ reqs[k].res # "ok" ) =>
    /\ ret.st = "returned"
    /\ \A n \in ParamNames : report[n].tag # ""
    /\ \A k \in 1..Len(reqs) :
         reqs[k].fc = 16 =>
           IF reqs[k].res = "ok"
           THEN report[reqs[k].name].tag = "written" /\ hold[reqs[k].name] = reqs[k].vals
           ELSE report[reqs[k].name].tag = "ERROR"

\* C7: SDM230.write_params with the baud that read_params reports for the
\* device gives "unchanged" for baud and writes nothing to the baud register.
C7_SameBaudUnchanged ==
  ( /\ pc = "done"
    /\ op = "write_params"
    /\ family = "sdm230"
    /\ ret.st = "returned"
    /\ FEq(args.baud, snap.baud) ) =>
    /\ report.baud.tag = "unchanged"
    /\ WritesOf("baud") = {}

\* C8: in write_params of DDS661 and of modbus_meter a field with no
\* requested value is "skipped", a field whose requested value is within
\* 1e-6 of the value read is "unchanged", neither is written, and the
\* fields written are exactly those reported "written" or "ERROR".
C8_SkipUnchanged ==
  (op = "write_params" /\ family \in {"dds661", "mm"}) =>
    \A n \in ParamNames :
      /\ (report[n].tag # "" /\ args[n] = None) => report[n].tag = "skipped"
      /\ (report[n].tag # "" /\ args[n] # None /\ Close(snap[n], args[n]))
           => report[n].tag = "unchanged"
      /\ report[n].tag \in {"skipped", "unchanged"} => WritesOf(n) = {}
      /\ report[n].tag \in {"written", "ERROR"} => Cardinality(WritesOf(n)) = 1
      /\ ret.st = "returned" =>
           (WritesOf(n) # {} <=> report[n].tag \in {"written", "ERROR"})

\* a report with a skipped field, a field left unchanged although the
\* requested value is not the value read, and a written field
C8_Witness ==
  /\ pc = "done"
  /\ op = "write_params"
  /\ family \in {"dds661", "mm"}
  /\ ret.st = "returned"
  /\ report.slave.tag = "skipped"
  /\ report.parity.tag = "unchanged"
  /\ args.parity # snap.parity
  /\ report.baud.tag = "written"

\* C9 as stated: a write_params call that returns its report has opened the
\* transport session exactly once.
C9_OpenedOnce ==
  (pc = "done" /\ op = "write_params" /\ family \in Classes /\ ret.st = "returned")
    => opened = 1

\* C9 amended: write_params opens one session for its initial read_params,
\* which is closed before the next is opened, and one session for all the
\* writes: never two at a time, the reads in the first and the writes in the
\* second, and two in all when the call returns its report.
C9_OpenedTwice ==
  (op = "write_params" /\ family \in Classes) =>
    /\ opened <= 2
    /\ nopen <= 1
    /\ pc = "wp_connect" => nopen = 0
    /\ \A k \in 1..Len(reqs) : reqs[k].sess = IF reqs[k].fc = 3 THEN 1 ELSE 2
    /\ ret.st = "returned" => opened = 2

\* a returned call that read in its first session and wrote in its second
C9_Witness ==
  /\ pc = "done"
  /\ op = "write_params"
  /\ family \in Classes
  /\ ret.st = "returned"
  /\ opened = 2
  /\ \E k \in 1..Len(reqs) : reqs[k].fc = 16

\* C10: when read_params, write_params or read_measurements has ended, by a
\* return or by an exception, no session the call opened is still open.
C10_SessionsClosed == pc \in {"done", "idle"} => nopen = 0

\* a write_params call that ended with an exception raised inside its
\* second session
C10_Witness ==
  /\ pc = "done"
  /\ op = "write_params"
  /\ ret.st = "raised"
  /\ opened = 2
  /\ exc = "TransportError"

\* the read requests of the current call that were not answered normally
C11_FailedReads == {k \in 1..Len(reqs) : reqs[k].fc = 3 /\ reqs[k].res # "ok"}

\* C11: read_params is all-or-nothing: when one of its three register reads
\* fails, by an error response or by an exception, the call raises, no Params
\* is returned however many fields were read before, no further field is
\* read, and the session is closed.
C11_AllOrNothing ==
  (pc = "done" /\ op = "read_params" /\ C11_FailedReads # {}) =>
    /\ ret.st = "raised"
    /\ snap = NoParams
    /\ nopen = 0
    /\ C11_FailedReads = {Len(reqs)}

\* a read_params that had read baud and parity when the read of slave failed
C11_Witness ==
  /\ pc = "done"
  /\ op = "read_params"
  /\ Len(reqs) = 3
  /\ reqs[3].res = "err"
  /\ cur.baud # None
  /\ cur.parity # None
  /\ ret.st = "raised"

\* the initial read of a write_params call failed: its connect() (no session
\* was opened) or one of its register reads
C12_InitialReadFailed ==
  /\ pc = "done"
  /\ op = "write_params"
  /\ family \in Classes
  /\ opened = 0 \/ C11_FailedReads # {}

\* C12: when the initial read of write_params fails, the call raises: no
\* register write is issued, no report (not even a partial one) exists, no
\* second session is opened and the driver's unit id is what it was.
C12_InitialReadFailure ==
  C12_InitialReadFailed =>
    /\ ret.st = "raised"
    /\ \A k \in 1..Len(reqs) : reqs[k].fc = 3
    /\ report = NoReport
    /\ opened <= 1
    /\ unit = unit0

\* a write_params asked to change the slave id whose initial read failed at
\* its second field
C12_Witness ==
  /\ C12_InitialReadFailed
  /\ args.slave = Flt(5)
  /\ Len(reqs) = 2
  /\ reqs[2].res = "raise"

\* a connect() of the call that ended has failed: the only one of
\* read_params and read_measurements, or one of the two of write_params (the
\* second, when one session was opened and all three reads were answered)
C13_ConnectFailed ==
  /\ pc = "done"
  /\ op \in {"read_params", "write_params", "read_measurements"}
  /\ \/ opened = 0
     \/ /\ op = "write_params"
        /\ opened = 1
        /\ Len(reqs) = Len(PARAM_ORDER)
        /\ C11_FailedReads = {}

\* C13 as stated: a call whose connect() fails raises and has issued no
\* register request at all.
C13_NoRequestAtAll ==
  C13_ConnectFailed => (ret.st = "raised" /\ reqs = <<>>)

\* C13 amended: a call whose connect() fails raises RuntimeError and returns
\* nothing (no Params, no report, no record); no request is issued in the
\* session that failed to open.  read_params and read_measurements issue no
\* request at all, write_params issues no write request, and no read request
\* either when its first connect() fails; when its second fails the three
\* reads of its initial read_params have been issued and answered.
C13_ConnectFailure ==
  C13_ConnectFailed =>
    /\ ret = [st |-> "raised", exn |-> "RuntimeError"]
    /\ report = NoReport
    /\ meas = NoMeas
    /\ op = "read_params" => snap = NoParams
    /\ nopen = 0
    /\ unit = unit0
    /\ \A k \in 1..Len(reqs) : reqs[k].fc = 3 /\ reqs[k].sess = 1
    /\ opened = 0 => reqs = <<>>

\* a read_measurements whose connect() failed
C13_Witness ==
  /\ C13_ConnectFailed
  /\ op = "read_measurements"
  /\ family = "mm"
  /\ ret.st = "raised"


\* the table of the SDM230 baud codes: <<code, rate>>
C23_Table == {<<0, 2400>>, <<1, 4800>>, <<2, 9600>>, <<5, 1200>>}

\* the baud writes of the call in progress
C23_BaudWrites == {k \in 1..Len(reqs) : reqs[k].fc = 16 /\ reqs[k].name = "baud"}

\* C23: the SDM230 baud mapping.  Codes 0, 1, 2, 5 read as 2400, 4800,
\* 9600, 1200 and these rates are written as those codes, each mapping the
\* inverse of the other; a read_params that returned reports the rate of
\* the code the baud register holds; every baud write of a write_params
\* asked for one of the four rates carries the encoded code, not the rate.
C23_BaudEnum ==
  /\ \A t \in C23_Table :
       /\ BaudFromCode(Flt(t[1])) = Flt(t[2])
       /\ BaudToCode(Flt(t[2])) = Flt(t[1])
       /\ BaudToCode(BaudFromCode(Flt(t[1]))) = Flt(t[1])
       /\ BaudFromCode(BaudToCode(Flt(t[2]))) = Flt(t[2])
  /\ (family = "sdm230" /\ op = "read_params" /\ snap.baud # None) =>
       \A t \in C23_Table :
         registers_to_float(hold.baud) = Flt(t[1]) => snap.baud = Flt(t[2])
  /\ (family = "sdm230" /\ op = "write_params") =>
       \A t \in C23_Table :
         args.baud = Flt(t[2]) =>
           \A k \in C23_BaudWrites :
             /\ reqs[k].vals = float_to_registers(Flt(t[1]))
             /\ reqs[k].vals # float_to_registers(Flt(t[2]))

\* write_params(baud=1200.0) on an SDM230 has written 5.0 to the baud
\* register, and the register now decodes to code 5
C23_Witness ==
  /\ family = "sdm230"
  /\ op = "write_params"
  /\ pc = "done"
  /\ args.baud = Flt(1200)
  /\ \E k \in C23_BaudWrites :
       /\ reqs[k].res = "ok"
       /\ reqs[k].addr = SDM230_HOLD.baud
       /\ reqs[k].vals = float_to_registers(Flt(5))
  /\ registers_to_float(hold.baud) = Flt(5)

\* the driver family a request went out for: the type of the polled device,
\* or the family of the driver object called directly
ReqFamily(r) ==
  IF r.dev = 0 THEN family
  ELSE IF script = "polling" THEN devices[r.dev].type ELSE "dds661"

\* C24: every register request, of a driver call or of a sequential read,
\* is for the 2 registers of one field, starting at the field's address: a
\* read has count 2, a write carries exactly 2 register values.
C24_PairAccess ==
  \A k \in 1..Len(reqs) :
    LET r == reqs[k] IN
    /\ r.fc \in {3, 4, 16}
    /\ r.cnt = 2
    /\ r.fc = 16 =>
         /\ Len(r.vals) = 2
         /\ r.name \in ParamNames
         /\ r.addr = HoldAddr(ReqFamily(r))[r.name]
    /\ r.fc = 3 =>
         /\ r.vals = <<>>
         /\ r.name \in ParamNames
         /\ r.addr = HoldAddr(ReqFamily(r))[r.name]
    /\ r.fc = 4 =>
         /\ r.vals = <<>>
         /\ r.name \in MeasNames
         /\ r.addr = InAddr(ReqFamily(r))[r.name]

\* a write_params that read the three parameters and wrote two of them
C24_Witness ==
  /\ op = "write_params"
  /\ pc = "done"
  /\ Cardinality({k \in 1..Len(reqs) : reqs[k].fc = 3}) = 3
  /\ Cardinality({k \in 1..Len(reqs) : reqs[k].fc = 16 /\ Len(reqs[k].vals) = 2}) = 2

\* the address table of the specification, per device family
C25_Table ==
  [dds661 |-> [baud |-> 0, parity |-> 2, slave |-> 8,
               voltage |-> 0, current |-> 8, p_active |-> 18, pf |-> 42,
               freq |-> 54, e_total |-> 256, e_pos |-> 258, e_rev |-> 259],
   sdm230 |-> [baud |-> 28, parity |-> 18, slave |-> 20,
               voltage |-> 0, current |-> 6, p_active |-> 12, pf |-> 30,
               freq |-> 70, e_total |-> 342, e_pos |-> 72, e_rev |-> 74]]

\* the device a driver family is for: modbus_meter.py drives the DDS661
C25_Device(fam) == IF fam = "sdm230" THEN "sdm230" ELSE "dds661"

\* C25: the register maps of the drivers and the ADDR_MAP of the sequential
\* reads hold the addresses of the specification's table, and every request
\* issued goes to the table's address of its field.
C25_Addresses ==
  /\ \A f \in Families :
       /\ \A n \in ParamNames : HoldAddr(f)[n] = C25_Table[C25_Device(f)][n]
       /\ \A n \in MeasNames : InAddr(f)[n] = C25_Table[C25_Device(f)][n]
  /\ \A t \in DRIVERS :
       \A n \in MeasNames :
         /\ ADDR_MAP[t][n] = C25_Table[t][n]
         /\ ADDR_MAP[t][n] = InAddr(t)[n]
  /\ \A n \in MeasNames : FIELDS[n] = C25_Table["dds661"][n]
  /\ \A k \in 1..Len(reqs) :
       reqs[k].addr = C25_Table[C25_Device(ReqFamily(reqs[k]))][reqs[k].name]

\* read_measurements of an SDM230 has read total energy at 0x0156 and
\* export energy at 0x004A
C25_Witness ==
  /\ family = "sdm230"
  /\ op = "read_measurements"
  /\ pc = "done"
  /\ \E k \in 1..Len(reqs) : reqs[k].name = "e_total" /\ reqs[k].addr = 342
  /\ \E k \in 1..Len(reqs) : reqs[k].name = "e_rev" /\ reqs[k].addr = 74

\* ------------------------------------------------------------------------
\* Properties of the poll cycle
\* ------------------------------------------------------------------------

\* C2: whatever exception the processing of a device meets, _poll_once logs
\* it and goes on: the cycle ends by returning, never by raising, and it has
\* gone through every device of the list.
C2_CycleNeverAborts ==
  (op = "_poll_once" /\ pc = "done") =>
    /\ ret.st = "returned"
    /\ di = Len(devices)

\* the device at position d is a mapping whose type has no driver
C3_Unknown(d) ==
  devices[d].shape = "map" /\ devices[d].type \notin {"dds661", "sdm230"}

\* the device at position d is a mapping whose type has a driver
C3_Known(d) ==
  devices[d].shape = "map" /\ devices[d].type \in {"dds661", "sdm230"}

\* the cycle is through with the device at position d
C3_Through(d) == d < di \/ (d = di /\ pc = "done")

\* the records published for the device at position d
C3_Records(d) == {k \in 1..Len(published) : published[k].dev = d}

\* the processing of the device at position d ended in the except clause
C3_Failed(d) ==
  \E k \in 1..Len(plog) : plog[k].dev = d /\ plog[k].kind = "failed"

\* the value the record of device d must hold for a field: the decoded
\* registers when the field's request was answered, else NaN
C3_Expected(d, name) ==
  IF \E k \in 1..Len(reqs) :
       reqs[k].dev = d /\ reqs[k].name = name /\ reqs[k].res = "ok"
  THEN registers_to_float(InputRegs(DeviceScen(d), name))
  ELSE NaN

\* C3: in a poll cycle of polling.py a device of unknown type opens no
\* session, issues no request, publishes no record and never makes the cycle
\* raise, while every device of known type that the cycle is through with
\* and that met no exception has published exactly one record, with its id,
\* its type and all 8 fields.
C3_UnknownTypeIsolated ==
  (op = "_poll_once" /\ script = "polling") =>
    \A d \in 1..Len(devices) :
      /\ C3_Unknown(d) =>
           /\ dopens[d] = 0
           /\ \A k \in 1..Len(reqs) : reqs[k].dev # d
           /\ C3_Records(d) = {}
           /\ ~(ret.st = "raised" /\ di = d)
           /\ (pc = "done" /\ \A e \in 1..Len(devices) : devices[e].shape # "notmap")
                => ret.st = "returned"
      /\ (C3_Known(d) /\ C3_Through(d) /\ ~C3_Failed(d)) =>
           /\ Cardinality(C3_Records(d)) = 1
           /\ \A k \in C3_Records(d) :
                /\ published[k].id = DeviceId(d)
                /\ published[k].type = devices[d].type
                /\ \A n \in MeasNames : published[k].vals[n] = C3_Expected(d, n)

\* a finished cycle over three devices, runVars, the second of unknown type: the
\* first and the third have published records with all 8 fields read
C3_Witness ==
  /\ op = "_poll_once"
  /\ script = "polling"
  /\ pc = "done"
  /\ ret.st = "returned"
  /\ Len(devices) = 3
  /\ C3_Known(1) /\ C3_Unknown(2) /\ C3_Known(3)
  /\ Len(published) = 2
  /\ published[1].dev = 1
  /\ published[2].dev = 3
  /\ \A k \in 1..2 : \A n \in MeasNames : IsFin(published[k].vals[n])
  /\ \E k \in 1..Len(plog) : plog[k].dev = 2 /\ plog[k].kind = "unsupported"

\* the entry at position d names a device the script reads
PollReadable(d) ==
  /\ devices[d].shape = "map"
  /\ script = "polling" => devices[d].type \in {"dds661", "sdm230"}

\* the reader the configuration asks for a readable device: the TCP path of
\* _read_device_sequential, the bulk driver call or the serial path
PollPath(d) ==
  IF script = "polling" /\ devices[d].protocol = "tcp" THEN "tcp"
  ELSE IF mode = "bulk" THEN "bulk"
  ELSE "rtu"

\* the requests issued for the device at position d
PollReqsOf(d) == {k \in 1..Len(reqs) : reqs[k].dev = d}

\* the fields of device d whose serial open failed
PollOpenFailed(d) ==
  {plog[k].name : k \in {j \in 1..Len(plog) :
     plog[j].dev = d /\ plog[j].kind = "read" /\ plog[j].exn = "RuntimeError"}}

\* the reader of the device at position d has ended
PollReadDone(d) ==
  d < di \/ (d = di /\ pc \in {"po_publish", "po_except", "po_finally", "done"})

\* C14: in sequential mode a serial device pass opens one session per field
\* and closes it before the next field, with exactly one register read in
\* each session that opened (8 sessions when every open succeeds); a TCP
\* device pass opens one session, reads all 8 fields in it and closes it at
\* the end.  Outside the readers no session is open.
C14_SessionsPerField ==
  op = "_poll_once" =>
    /\ pc \in {"po_device", "po_publish", "po_except", "po_finally", "done"}
         => nopen = 0
    /\ \A d \in 1..Len(devices) :
         /\ (PollReadable(d) /\ PollPath(d) = "rtu") =>
              /\ \A a, b \in PollReqsOf(d) : a # b => reqs[a].sess # reqs[b].sess
              /\ (d = di /\ pc = "sq_connect") =>
                   (nopen = 0 /\ dopens[d] = Cardinality(PollReqsOf(d)))
              /\ (d = di /\ pc = "sq_read") =>
                   (nopen = 1 /\ dopens[d] = Cardinality(PollReqsOf(d)) + 1)
              /\ PollReadDone(d) =>
                   /\ dopens[d] = Cardinality(PollReqsOf(d))
                   /\ dopens[d] + Cardinality(PollOpenFailed(d)) = Len(MEAS_KEYS)
         /\ (PollReadable(d) /\ PollPath(d) = "tcp") =>
              /\ dopens[d] <= 1
              /\ \A a, b \in PollReqsOf(d) : reqs[a].sess = reqs[b].sess
              /\ (d = di /\ pc \in {"tcp_read", "tcp_finally"}) => nopen = 1
              /\ PollReadDone(d) =>
                   Cardinality(PollReqsOf(d)) = dopens[d] * Len(MEAS_KEYS)

\* a cycle in which a serial device was read in 8 sessions and a TCP device
\* in one
C14_Witness ==
  /\ op = "_poll_once"
  /\ pc = "done"
  /\ mode = "sequential"
  /\ \E d, e \in 1..Len(devices) :
       /\ PollReadable(d) /\ PollPath(d) = "rtu" /\ dopens[d] = 8
       /\ PollReadable(e) /\ PollPath(e) = "tcp" /\ dopens[e] = 1
       /\ Cardinality(PollReqsOf(e)) = 8

\* the value a sequential reader must give a field of device d: the decoded
\* registers when the field's request was answered normally, else NaN
C15_Value(d, name) ==
  IF \E k \in PollReqsOf(d) : reqs[k].name = name /\ reqs[k].res = "ok"
  THEN registers_to_float(InputRegs(DeviceScen(d), name))
  ELSE NaN

\* the device at position d is read by a sequential reader whose session, if
\* it is the one TCP session, opened
C15_Sequential(d) ==
  /\ PollReadable(d)
  /\ \/ PollPath(d) = "rtu"
     \/ PollPath(d) = "tcp" /\ dopens[d] = 1

\* C15: in a sequential device pass (serial, or TCP once connected) a field
\* whose read fails, by an exception, a failed serial open or an error
\* response, is NaN and nothing else changes: every field is attempted once,
\* the reader returns all 8 fields, the failed ones NaN and the others
\* decoded, and that record is handed to publish (and published unless
\* publish itself raises).
C15_SequentialFieldIsolation ==
  op = "_poll_once" =>
    \A d \in 1..Len(devices) :
      (C15_Sequential(d) /\ PollReadDone(d)) =>
        /\ \A n \in MeasNames :
             Cardinality({k \in PollReqsOf(d) : reqs[k].name = n})
               + (IF n \in PollOpenFailed(d) THEN 1 ELSE 0) = 1
        /\ (d = di /\ pc = "po_publish") =>
             \A n \in MeasNames : meas[n] = C15_Value(d, n)
        /\ (d < di \/ pc \in {"po_finally", "done"}) =>
             \/ /\ Cardinality(C3_Records(d)) = 1
                /\ \A k \in C3_Records(d) :
                     \A n \in MeasNames : published[k].vals[n] = C15_Value(d, n)
             \/ /\ C3_Records(d) = {}
                /\ \E k \in 1..Len(plog) :
                     /\ plog[k].dev = d
                     /\ plog[k].kind = "failed"
                     /\ plog[k].exn = "PublishError"

\* a serial device whose read of "current" met an exception and whose
\* published record has NaN there and the 7 other fields read
C15_Witness ==
  /\ op = "_poll_once"
  /\ pc = "done"
  /\ \E d \in 1..Len(devices) :
       /\ PollReadable(d)
       /\ PollPath(d) = "rtu"
       /\ \E k \in PollReqsOf(d) : reqs[k].name = "current" /\ reqs[k].res = "raise"
       /\ \E k \in C3_Records(d) :
            /\ IsNaN(published[k].vals["current"])
            /\ \A n \in MeasNames \ {"current"} : IsFin(published[k].vals[n])

\* C16: in both strategies every field read that fails, by an exception or
\* by an error response, leaves one error entry in the log with the device,
\* the field name and the cause.
C16_FailureLogged ==
  op = "_poll_once" =>
    \A k \in 1..Len(reqs) :
      (reqs[k].res # "ok" /\ (reqs[k].dev < di \/ pc = "done")) =>
        Cardinality({j \in 1..Len(plog) :
                       /\ plog[j].dev = reqs[k].dev
                       /\ plog[j].kind = "read"
                       /\ plog[j].name = reqs[k].name
                       /\ plog[j].exn # ""}) = 1

\* C17: a device whose protocol is tcp is read on the TCP path of
\* _read_device_sequential whatever the read mode: while the cycle is at it,
\* control is never in the bulk driver call or in the serial reader, and it
\* gets at most one session.
C17_TcpForcesSequential ==
  (op = "_poll_once" /\ script = "polling" /\ di > 0) =>
    /\ (pc # "done" /\ PollReadable(di) /\ devices[di].protocol = "tcp") =>
         /\ pc \in {"po_device", "tcp_connect", "tcp_read", "tcp_finally",
                    "po_publish", "po_except", "po_finally"}
         /\ \A k \in 1..Len(stack) : stack[k] # "_read_device_bulk"
    /\ \A d \in 1..Len(devices) :
         (PollReadable(d) /\ devices[d].protocol = "tcp") => dopens[d] <= 1

\* a tcp device at its last field on the TCP path, in bulk mode
C17_Witness ==
  /\ op = "_poll_once"
  /\ script = "polling"
  /\ mode = "bulk"
  /\ di > 0
  /\ PollReadable(di)
  /\ devices[di].protocol = "tcp"
  /\ pc = "tcp_read"
  /\ i = Len(MEAS_KEYS)

\* ------------------------------------------------------------------------
\* Properties of run_poll
\* ------------------------------------------------------------------------

\* C18: when the stop signal cut the wait after a cycle short and run_poll
\* has left its loop, "offline" was published on the status topic before
\* the MQTT client was stopped.
C18_OfflineOnShutdown ==
  (rpc = "stopped" /\ cycles > 0 /\ 0 < slept /\ slept < delay) =>
    \E a, b \in 1..Len(mqttlog) :
      a < b /\ mqttlog[a] = "offline" /\ mqttlog[b] = "loop_stop"

\* how often the cycles of the run have dealt with the device at position d:
\* a record published, or the entry logged as failed or unsupported
C19_Visits(d) ==
  Cardinality(C3_Records(d))
    + Cardinality({k \in 1..Len(plog) :
                     plog[k].dev = d /\ plog[k].kind \in {"failed", "unsupported"}})

\* C19: a oneshot run_poll never enters the periodic loop, whatever the stop
\* flag: it starts one cycle and no second one, is never at the loop test,
\* the wait or the shutdown after the loop, and when it returns every
\* configured device has been dealt with exactly once.
C19_OneshotOneCycle ==
  (oneshot /\ rpc # "off") =>
    /\ rpc \in {"start", "cycle", "returned", "raised"}
    /\ cycles <= 1
    /\ rpc \in {"returned", "raised"} => cycles = 1
    /\ rpc = "returned" => \A d \in 1..Len(devices) : C19_Visits(d) = 1

\* a oneshot run over two devices that returned with the stop flag set, both
\* records published
C19_Witness ==
  /\ oneshot
  /\ stopEvt
  /\ rpc = "returned"
  /\ cycles = 1
  /\ Len(devices) = 2
  /\ Len(published) = 2

\* C20: the timeout of the wait after a cycle is max(0, period - elapsed):
\* never negative, period - elapsed when the cycle was shorter than the
\* period, 0 when it took at least the period; the loop waits no longer than
\* that, and exactly that long unless the stop flag is set.
C20_Pacing ==
  (rpc \in {"wait", "loop_test", "shutdown"} /\ cycles > 0) =>
    /\ delay >= 0
    /\ elapsed < period => delay = period - elapsed
    /\ elapsed >= period => delay = 0
    /\ rpc # "wait" =>
         /\ 0 <= slept
         /\ slept <= delay
         /\ ~stopEvt => slept = delay

\* a cycle of 2 ticks under a period of 5: the loop has waited 3 ticks and is
\* about to start the next cycle
C20_Witness ==
  /\ rpc = "loop_test"
  /\ ~stopEvt
  /\ period = 5
  /\ elapsed = 2
  /\ delay = 3
  /\ slept = 3

\* C21: within a cycle the devices are visited one after the other in the
\* configured order.  The requests are in the order of their devices, the
\* records are published in strictly ascending device order (so none twice),
\* no device after the current one has a session, a request, a record or a
\* log entry, and once the current device's record is published nothing
\* more is read for it: the cycle is past its readers.
C21_DeviceOrder ==
  op = "_poll_once" =>
    /\ \A k, l \in 1..Len(reqs) : k < l => reqs[k].dev <= reqs[l].dev
    /\ \A k, l \in 1..Len(published) :
         k < l => published[k].dev < published[l].dev
    /\ \A k, l \in 1..Len(plog) : k < l => plog[k].dev <= plog[l].dev
    /\ \A d \in 1..Len(devices) :
         d > di =>
           /\ dopens[d] = 0
           /\ PollReqsOf(d) = {}
           /\ C3_Records(d) = {}
           /\ \A k \in 1..Len(plog) : plog[k].dev # d
    /\ \A d \in 1..Len(devices) :
         C3_Records(d) # {} =>
           d < di \/ (d = di /\ pc \in {"po_finally", "done"})

\* a finished cycle over three devices, each read and published in turn
C21_Witness ==
  /\ pc = "done"
  /\ op = "_poll_once"
  /\ Len(devices) = 3
  /\ \A d \in 1..3 : PollReqsOf(d) # {} /\ C3_Records(d) # {}
  /\ published[1].dev = 1
  /\ published[3].dev = 3

\* C22: every published record has the device id, the device type, the
\* display name and exactly the 8 measurement fields, each a decoded value
\* or NaN.
C22_FullRecord ==
  \A k \in 1..Len(published) :
    /\ published[k].keys = {"id", "type", "name"} \cup MeasNames
    /\ published[k].id = DeviceId(published[k].dev)
    /\ published[k].type \in DRIVERS
    /\ published[k].name.given # "" \/ published[k].name.prefix # ""
    /\ \A n \in MeasNames : published[k].vals[n] # None

\* ------------------------------------------------------------------------
\* Properties of the codec
\* ------------------------------------------------------------------------

\* the value is a finite float32: at most 24 significant bits, exponent in
\* the range of normal and subnormal float32
C26_IsFloat32(v) ==
  /\ IsFin(v)
  /\ v.m = 0 \/ (BitLen(v.m) <= 24 /\ Mag(v) <= 127 /\ v.e >= -149)

\* the pair is the pattern of a finite float32: exponent field not all ones
C26_IsFinitePattern(regs) == (regs[1] \div 128) % 256 # 255

\* C26: the codec round trip.  A finite float32 x is encoded to two 16-bit
\* words and decoded back to x itself, the sign of zero included; the pair
\* of a finite float32 pattern is decoded to a float32 and encoded back to
\* the same high and low word.
C26_RoundTrip ==
  /\ (cpc \in {"enc_dec", "done_x"} /\ C26_IsFloat32(cx)) =>
       /\ cregs[1] \in 0..65535
       /\ cregs[2] \in 0..65535
       /\ C26_IsFinitePattern(cregs)
  /\ (cpc = "done_x" /\ C26_IsFloat32(cx)) => cy = cx
  /\ (cpc \in {"dec_enc", "done_w"} /\ C26_IsFinitePattern(cregs)) =>
       C26_IsFloat32(cx)
  /\ (cpc = "done_w" /\ C26_IsFinitePattern(cregs)) => cw = cregs

\* the smallest negative subnormal pattern 0x8000 0x0001 decoded to -2^-149
\* and encoded back to the same pair
C26_Witness ==
  /\ cpc = "done_w"
  /\ cregs = <<32768, 1>>
  /\ cx = Norm(1, 1, -149)
  /\ cw = <<32768, 1>>

\* C27 as stated: the encoding of 9600.0 is hi = 0x4615, lo = 0x2000.
C27_Encode9600_Stated ==
  (cpc \in {"enc_dec", "done_x"} /\ cx = Flt(9600)) => cregs = <<17941, 8192>>

\* C27 as the code does it: the encoding of 9600.0 is hi = 0x4616,
\* lo = 0x0000, the big-endian float32 pattern 0x46160000 of 9600.0.
C27_Encode9600 ==
  (cpc \in {"enc_dec", "done_x"} /\ cx = Flt(9600)) => cregs = <<17942, 0>>

\* 9600.0 encoded and decoded back
C27_Witness ==
  /\ cpc = "done_x"
  /\ cx = Flt(9600)
  /\ cregs = <<17942, 0>>
  /\ cy = Flt(9600)

C29_Malformed(d) == devices[d].shape # "map"

\* C29: a malformed device entry is logged and skipped: run_poll is never
\* ended by an exception of the cycle, and a cycle that is over has logged
\* every malformed entry, published nothing for it and gone through the
\* whole list.
C29_MalformedSkipped ==
  /\ rpc # "raised"
  /\ (rpc = "cycle" /\ pc = "done") =>
       /\ di = Len(devices)
       /\ \A d \in 1..Len(devices) :
            C29_Malformed(d) =>
              /\ C3_Records(d) = {}
              /\ \E k \in 1..Len(plog) :
                   plog[k].dev = d /\ plog[k].kind = "failed"

\* ------------------------------------------------------------------------
\* Properties of meter.py
\* ------------------------------------------------------------------------

\* C30: a run of meter.py whose resolved protocol is rtu ends normally, and
\* it has called the driver: read has read the three parameters and then
\* the measurements, write has gone through write_params, which begins by
\* reading the three parameters.
C30_CliDispatch ==
  (op \in {"meter.py read", "meter.py write"} /\ pc = "done"
     /\ CliProtocol = "rtu") =>
    /\ ret.st = "returned"
    /\ Cardinality({k \in 1..Len(reqs) : reqs[k].fc = 3}) = 3
    /\ op = "meter.py read" =>
         /\ \E k \in 1..Len(reqs) : reqs[k].fc = 4
         /\ \A k, l \in 1..Len(reqs) :
              (reqs[k].fc = 3 /\ reqs[l].fc = 4) => k < l


\* the TCP connection of the readable tcp device at position d could not be
\* established: its pass is over and no session was opened for it
C32_ConnectFailed(d) ==
  /\ PollReadable(d)
  /\ PollPath(d) = "tcp"
  /\ PollReadDone(d)
  /\ dopens[d] = 0

\* C32: a tcp device whose TCP connection cannot be established fails as a
\* whole: no register request is issued for it and no record is published
\* for it, the failure is logged once as the failure of the device, and the
\* cycle goes on to the next device.
C32_TcpConnectFailure ==
  op = "_poll_once" =>
    \A d \in 1..Len(devices) :
      C32_ConnectFailed(d) =>
        /\ PollReqsOf(d) = {}
        /\ C3_Records(d) = {}
        /\ (d < di \/ pc \in {"po_finally", "done"}) =>
             /\ Cardinality({k \in 1..Len(plog) : plog[k].dev = d}) = 1
             /\ \E k \in 1..Len(plog) :
                  /\ plog[k].dev = d
                  /\ plog[k].kind = "failed"
                  /\ plog[k].exn = "RuntimeError"
        /\ (pc = "done" /\ d < Len(devices)) => d < di

\* a cycle that is over: the connection of the first device, a tcp device,
\* failed, nothing was read or published for it, and the second device got
\* its record
C32_Witness ==
  /\ op = "_poll_once"
  /\ pc = "done"
  /\ Len(devices) >= 2
  /\ C32_ConnectFailed(1)
  /\ PollReqsOf(1) = {}
  /\ \E k \in 1..Len(plog) : plog[k].dev = 1 /\ plog[k].kind = "failed"
  /\ C3_Records(2) # {}


\* C33: at most one transport session is open at any time, and a session is
\* opened only when none is open: in the bulk call, in the serial and the
\* TCP reader and in write_params with its read_params, every connect()
\* that succeeds follows the close() of the session before it.
C33_OneSession ==
  /\ [](nopen \in {0, 1})
  /\ [][nopen' > nopen => (nopen = 0 /\ nopen' = 1)]_vars

\* the second device of a cycle has its session open after the first
\* device had, and closed, a session of its own
C33_Witness ==
  /\ op = "_poll_once"
  /\ di = 2
  /\ dopens[1] >= 1
  /\ dopens[2] >= 1
  /\ nopen = 1


\* the register space a request addresses: input registers for function
\* code 4, holding registers for 3 and 16
C34_Space(r) == IF r.fc = 4 THEN "input" ELSE "holding"

\* the two registers of the field a request is for
C34_Range(r) == {r.addr, r.addr + 1}

\* C34: within the holding map and within the input map of a device family
\* the 2-register ranges of distinct fields are pairwise disjoint: no two
\* requests to one device for different fields of the same register space
\* touch a common register.
C34_DisjointFields ==
  \A j, k \in 1..Len(reqs) :
    (/\ reqs[j].dev = reqs[k].dev
     /\ C34_Space(reqs[j]) = C34_Space(reqs[k])
     /\ reqs[j].name # reqs[k].name)
      => C34_Range(reqs[j]) \cap C34_Range(reqs[k]) = {}


\* C38: a poll cycle only reads input registers.  Every request of
\* _poll_once, in bulk and in sequential mode, over the serial line and over
\* TCP, is a read with function code 4 that carries no values and goes to
\* the unit id of its device entry; no step of the cycle changes the holding
\* registers or the device list, and the unit id in use changes only when
\* the cycle moves to a device.
C38_ReadOnly ==
  /\ [](op = "_poll_once" =>
          \A k \in 1..Len(reqs) :
            /\ reqs[k].fc = 4
            /\ reqs[k].vals = <<>>
            /\ reqs[k].unit = DeviceId(reqs[k].dev))
  /\ [][hold' = hold /\ devices' = devices]_vars
  /\ [][unit' # unit => (pc = "po_device" /\ unit' = DeviceId(di))]_vars

\* a finished cycle that read all 8 fields of two devices on two different
\* paths
C38_Witness ==
  /\ op = "_poll_once"
  /\ pc = "done"
  /\ Len(devices) >= 2
  /\ PollPath(1) # PollPath(2)
  /\ \A d \in 1..2 : Cardinality(PollReqsOf(d)) = Len(MEAS_KEYS)
  /\ hold = FactoryHold("dds661")


\* ---------------------------------------------------------------------------
\* Properties of the driver calls with wider requested values
\* ---------------------------------------------------------------------------
C31_Codes == {0, 1, 2, 5}

C31_Rates == {2400, 4800, 9600, 1200}

\* C31: the SDM230 baud mapping passes unknown values through.  A
\* read_params reports the decoded baud register unchanged when it is none
\* of the codes 0, 1, 2, 5, and every baud write of a write_params asked for
\* a rate that is none of 2400, 4800, 9600, 1200 carries the requested
\* value itself.
C31_PassThrough ==
  /\ (family = "sdm230" /\ op = "read_params" /\ snap.baud # None) =>
       ((\A c \in C31_Codes : ~FEq(registers_to_float(hold.baud), Flt(c)))
          => snap.baud = registers_to_float(hold.baud))
  /\ (family = "sdm230" /\ op = "write_params" /\ args.baud # None) =>
       ((\A r \in C31_Rates : ~FEq(args.baud, Flt(r)))
          => \A k \in WritesOf("baud") :
               reqs[k].vals = float_to_registers(args.baud))

\* an SDM230 whose baud register holds 19200.0, written raw by an earlier
\* write_params(baud=19200.0), has answered a read_params with 19200.0
C31_Witness ==
  /\ family = "sdm230"
  /\ op = "read_params"
  /\ pc = "done"
  /\ hold.baud = float_to_registers(Flt(19200))
  /\ snap.baud = Flt(19200)


\* C35: the unit id the driver remembers stays an integer of 1..247 through
\* every sequence of write_params calls, whatever slave values are asked for.
C35_UnitInRange == unit \in 1..247


C37_StopEndsLoop ==
  /\ [][stopEvt => stopEvt']_vars
  /\ [][(~oneshot /\ cycles' > cycles) => ~stopEvt]_vars
  /\ []((~oneshot /\ rpc = "cycle" /\ pc = "done" /\ ret.st = "returned")
          => di = Len(devices))
  /\ [][(rpc = "wait" /\ stopEvt) =>
          (slept' = 0 /\ rpc' \in {"loop_test", "shutdown"})]_vars
  /\ (~oneshot /\ stopEvt) ~> (rpc \in {"stopped", "raised"})

\* the flag was set during the first cycle of the loop, the cycle went on to
\* its last device and published, and the wait after it is about to begin
C37_Witness ==
  /\ ~oneshot
  /\ stopEvt
  /\ rpc = "wait"
  /\ cycles = 1
  /\ Len(devices) = 2
  /\ di = 2
  /\ C3_Records(2) # {}


\* ---------------------------------------------------------------------------
\* Equivalence of modbus_meter.write_params and DDS661.write_params
\* ---------------------------------------------------------------------------

\* the write requests of the call, in the order they were issued
C39_IsWrite(r) == r.fc = 16

C39_Writes == SelectSeq(reqs, C39_IsWrite)

\* what a request shows on the line
C39_Wire(r) == [addr |-> r.addr, vals |-> r.vals, unit |-> r.unit]

\* what a write_params call comes to, as a function of the snapshot s that
\* read_params returned, the requested values a, the unit id u and the
\* device's responses resp to the writes, field by field from index k of the
\* plan; the function knows no API
RECURSIVE C39_Expected(_, _, _, _, _, _, _)
C39_Expected(k, s, a, u, resp, writes, rep) ==
  IF k > Len(PLAN)
  THEN [st |-> "returned", writes |-> writes, report |-> rep, unit |-> u]
  ELSE
    LET name == PLAN[k]
        want == a[name]
    IN
    IF want = None
    THEN C39_Expected(k + 1, s, a, u, resp, writes,
                      [rep EXCEPT ![name] = [tag |-> "skipped", val |-> want]])
    ELSE IF Close(s[name], want)
    THEN C39_Expected(k + 1, s, a, u, resp, writes,
                      [rep EXCEPT ![name] = [tag |-> "unchanged", val |-> want]])
    ELSE IF float_to_registers(want) = <<-1, -1>>
    THEN [st |-> "raised", writes |-> writes, report |-> NoReport, unit |-> u]
    ELSE IF resp = <<>>
    THEN [st |-> "open", writes |-> writes, report |-> rep, unit |-> u]
    ELSE
      LET w == [addr |-> DDS661_HOLD[name],
                vals |-> float_to_registers(want),
                unit |-> u]
      IN
      IF Head(resp) = "raise"
      THEN [st |-> "raised", writes |-> Append(writes, w),
            report |-> NoReport, unit |-> u]
      ELSE IF Head(resp) = "err"
      THEN C39_Expected(k + 1, s, a, u, Tail(resp), Append(writes, w),
                        [rep EXCEPT ![name] = [tag |-> "ERROR", val |-> want]])
      ELSE C39_Expected(k + 1, s, a,
                        IF name = "slave" THEN Trunc(want) ELSE u,
                        Tail(resp), Append(writes, w),
                        [rep EXCEPT ![name] = [tag |-> "written", val |-> want]])

\* the outcome of the call that has ended
C39_Actual ==
  [st     |-> ret.st,
   writes |-> [k \in 1..Len(C39_Writes) |-> C39_Wire(C39_Writes[k])],
   report |-> IF ret.st = "returned" THEN report ELSE NoReport,
   unit   |-> unit]

\* C39: modbus_meter.write_params, called with the snapshot read_params
\* returned, and DDS661.write_params are the same function of the snapshot,
\* the requested values, the unit id and the device's responses: a call of
\* either that got past its session open issues the same write requests
\* (address, 2 register values, unit id), returns the same report or raises
\* alike, and leaves the same unit id.
C39_SameFunction ==
  (/\ family \in {"dds661", "mm"}
   /\ op = "write_params"
   /\ pc = "done"
   /\ opened = 2) =>
    C39_Actual =
      C39_Expected(1, snap, args, unit0,
                   [k \in 1..Len(C39_Writes) |-> C39_Writes[k].res],
                   <<>>, NoReport)

\* a call of modbus_meter.write_params that changed the slave id and then
\* wrote another field under the new id
C39_Witness ==
  /\ family = "mm"
  /\ op = "write_params"
  /\ pc = "done"
  /\ ret.st = "returned"
  /\ report.slave.tag = "written"
  /\ unit # unit0
  /\ Len(C39_Writes) >= 2
  /\ C39_Writes[2].unit = unit

====
